---- MODULE Spec2Model ----
(***************************************************************************)
(* Model of prj, a local project registry: the ProjectDatabase operations  *)
(* (crates/prj-core/src/project.rs), marker detection and the directory    *)
(* scan (src/core/detect.rs) and the interactive list navigator            *)
(* (src/tui/app.rs).                                                       *)
(*                                                                         *)
(* Filesystem paths are sequences of components; the disk maps every path  *)
(* of a small universe to "none", "dir", "file" or "link".                 *)
(***************************************************************************)
EXTENDS Integers, Sequences, FiniteSets, TLC

VARIABLES
    disk,           \* the filesystem: path -> "none" | "dir" | "file" | "link"
    projects,       \* ProjectDatabase.projects / the live list of run_list
    call,           \* the Registry operation called last, with its arguments
    ret,            \* what that operation returned
    orphaned,       \* cmd_gc: the result of find_orphaned shown at the prompt
    root,           \* scan_projects: the root argument
    max_depth,      \* scan_projects: the max_depth argument
    walker,         \* scan_projects: the WalkDir iterator, a stack of unread entries
    project_roots,  \* scan_projects: project roots found so far
    found,          \* scan_projects: the result vector
    scan_pc,        \* scan_projects: "walking" | "done"
    persisted,      \* the project list in the database file
    state,          \* run_list: ListState (selected, git_statuses, mode, message)
    save_result,    \* run_list: outcome of the last db.save, "none" before any
    nav,            \* run_list: position, and the value the loop broke with
    last_key,       \* run_list, run_picker: the key press handled last; in SpecLoop
                    \* what the loop did last: "draw", a key press or another event
    names,          \* run_picker: the names of the projects; filter: items
    picker,         \* run_picker: PickerState (query, filtered, selected)
    pick_nav,       \* run_picker: position, and the value the loop broke with
    db_file,        \* ProjectDatabase::load / save: the database file with its text
    measured,       \* collect_overview_stats: what git2, tokei and walkdir report
                    \* for each project path
    workers,        \* collect_overview_stats: the unit each rayon worker runs, 0 for none
    slots,          \* collect_overview_stats: the vector collect() writes into
    overview        \* collect_overview_stats: the OverviewStats returned, none before

regVars == <<call, ret, orphaned>>
scanVars == <<root, max_depth, walker, project_roots, found, scan_pc>>
listVars == <<persisted, state, save_result, nav, last_key>>
pickVars == <<names, picker, pick_nav>>
storeVars == <<db_file>>
statVars == <<measured, workers, slots, overview>>
vars == <<disk, projects, regVars, scanVars, listVars, pickVars, storeVars, statVars>>

(***************************************************************************)
(* Bounds                                                                  *)
(***************************************************************************)
\* longest tag list passed to add_tags / remove_tags
MaxTagArgs == 2

\* largest max_depth scan_projects is called with
MaxDepth == 3

\* most projects in the database file when the list navigator starts
MaxProjects == 3

\* longest query typed in the picker or passed to filter
MaxQuery == 3

\* most candidates passed to filter
MaxItems == 3

\* rayon worker threads that run collect_overview_stats
MaxWorkers == 2

(***************************************************************************)
(* Generic helpers                                                         *)
(***************************************************************************)
Range(s) == {s[i] : i \in 1..Len(s)}

Contains(s, x) == \E i \in 1..Len(s) : s[i] = x

\* Vec::swap_remove(idx): the last element takes the place of the removed one
SwapRemoveAt(s, idx) ==
    IF idx = Len(s) THEN SubSeq(s, 1, Len(s) - 1)
    ELSE SubSeq([s EXCEPT ![idx] = s[Len(s)]], 1, Len(s) - 1)

\* Vec::remove(idx), idx counted from 1 here
RemoveAt(s, idx) == SubSeq(s, 1, idx - 1) \o SubSeq(s, idx + 1, Len(s))

\* Path::starts_with: component-wise prefix
StartsWith(p, base) == Len(base) <= Len(p) /\ SubSeq(p, 1, Len(base)) = base

\* Path::join(name)
Join(p, name) == Append(p, name)


(***************************************************************************)
(* Filesystem                                                              *)
(***************************************************************************)
\* the target of the one symbolic link of the Registry disk
LinkTarget(p) == IF p = <<"l">> THEN <<"w", "a">> ELSE <<>>

\* Path::exists (follows links: a link exists when its target does)
RECURSIVE Exists(_, _)
Exists(d, p) ==
    IF p \notin DOMAIN d THEN FALSE
    ELSE IF d[p] = "link" THEN Exists(d, LinkTarget(p))
    ELSE d[p] # "none"

\* Path::is_dir
RECURSIVE IsDir(_, _)
IsDir(d, p) ==
    IF p \notin DOMAIN d THEN FALSE
    ELSE IF d[p] = "link" THEN IsDir(d, LinkTarget(p))
    ELSE d[p] = "dir"

(***************************************************************************)
(* Marker table and detection (detect.rs)                                  *)
(***************************************************************************)
BUILD_SYSTEMS == <<
    [marker |-> "Cargo.toml",       system |-> "Cargo",  artifact_dirs |-> <<"target">>],
    [marker |-> "package.json",     system |-> "Npm",    artifact_dirs |-> <<"node_modules", "dist", "build">>],
    [marker |-> "CMakeLists.txt",   system |-> "CMake",  artifact_dirs |-> <<"build">>],
    [marker |-> "go.mod",           system |-> "Go",     artifact_dirs |-> <<>>],
    [marker |-> "pyproject.toml",   system |-> "Python", artifact_dirs |-> <<"__pycache__", ".venv", "dist">>],
    [marker |-> "build.zig",        system |-> "Zig",    artifact_dirs |-> <<"zig-out", "zig-cache">>],
    [marker |-> "Makefile",         system |-> "Make",   artifact_dirs |-> <<>>],
    [marker |-> "build.gradle",     system |-> "Gradle", artifact_dirs |-> <<"build", ".gradle">>],
    [marker |-> "build.gradle.kts", system |-> "Gradle", artifact_dirs |-> <<"build", ".gradle">>],
    [marker |-> "pom.xml",          system |-> "Maven",  artifact_dirs |-> <<"target">>],
    [marker |-> "meson.build",      system |-> "Meson",  artifact_dirs |-> <<"builddir">>] >>

ARTIFACT_DIR_NAMES ==
    {"target", "node_modules", "dist", "build", "__pycache__", ".venv",
     "zig-out", "zig-cache", ".gradle", "builddir", ".git"}

\* push every element of xs
PushAll(acc, xs) == acc \o xs

\* push every element of xs that acc does not contain yet
RECURSIVE PushNew(_, _)
PushNew(acc, xs) ==
    IF xs = <<>> THEN acc
    ELSE PushNew(IF Contains(acc, Head(xs)) THEN acc ELSE Append(acc, Head(xs)), Tail(xs))

\* the loop of detect_project over BUILD_SYSTEMS[i..]
RECURSIVE DetectFrom(_, _, _, _)
DetectFrom(d, path, i, acc) ==
    IF i > Len(BUILD_SYSTEMS) THEN acc
    ELSE LET info == BUILD_SYSTEMS[i] IN
         IF Exists(d, Join(path, info.marker))
         THEN DetectFrom(d, path, i + 1,
                [acc EXCEPT !.build_systems = PushNew(@, <<info.system>>),
                            !.artifact_dirs = PushNew(@, info.artifact_dirs)])
         ELSE DetectFrom(d, path, i + 1, acc)

detect_project(d, path) ==
    DetectFrom(d, path, 1,
        [vcs |-> IF Exists(d, Join(path, ".git")) THEN <<"Git">> ELSE <<>>,
         build_systems |-> <<>>,
         artifact_dirs |-> <<>>])

\* a test that looks for the repository only
is_project_vcs_only(d, path) == Exists(d, Join(path, ".git"))

is_project(d, path) ==
    \/ Exists(d, Join(path, ".git"))
    \/ \E i \in 1..Len(BUILD_SYSTEMS) : Exists(d, Join(path, BUILD_SYSTEMS[i].marker))


\* Path::canonicalize, component by component: "." is dropped, ".." steps
\* up, a link is replaced by its target, a missing component is an error
RECURSIVE Resolve(_, _, _)
Resolve(d, acc, rest) ==
    IF rest = <<>> THEN [ok |-> TRUE, path |-> acc]
    ELSE LET c == Head(rest)
             n == Append(acc, c)
         IN  IF c = "." THEN Resolve(d, acc, Tail(rest))
             ELSE IF c = ".."
                  THEN Resolve(d, IF acc = <<>> THEN acc ELSE SubSeq(acc, 1, Len(acc) - 1), Tail(rest))
             ELSE IF ~Exists(d, n) THEN [ok |-> FALSE, path |-> <<>>]
             ELSE IF d[n] = "link" THEN Resolve(d, LinkTarget(n), Tail(rest))
             ELSE IF Tail(rest) # <<>> /\ d[n] # "dir" THEN [ok |-> FALSE, path |-> <<>>]
             ELSE Resolve(d, n, Tail(rest))

canonicalize(d, path) == Resolve(d, <<>>, path)

\* Path::file_name: the last component, none for the root
file_name(path) == IF path = <<>> THEN <<>> ELSE <<path[Len(path)]>>

(***************************************************************************)
(* ProjectDatabase (project.rs)                                            *)
(* Option<T> is the empty or the one-element sequence.  Every operation    *)
(* yields the new project list, the error ("none" for Ok) and the value.   *)
(* A Project is the record of its fields without added_at, the time of     *)
(* registration, which no operation reads.                                 *)
(***************************************************************************)
Outcome(ps, err, val) == [projects |-> ps, err |-> err, val |-> val]

\* add without the check for a registered path
add_unchecked(ps, project) == Outcome(Append(ps, project), "none", <<>>)

add(ps, project) ==
    IF \E i \in 1..Len(ps) : ps[i].path = project.path
    THEN Outcome(ps, "ProjectAlreadyExists", <<>>)
    ELSE Outcome(Append(ps, project), "none", <<>>)

\* the last record of the name instead of the first
position_last(ps, name) ==
    IF \E i \in 1..Len(ps) : ps[i].name = name
    THEN CHOOSE i \in 1..Len(ps) :
            /\ ps[i].name = name
            /\ \A j \in (i + 1)..Len(ps) : ps[j].name # name
    ELSE 0

\* Iterator::position, counted from 1; 0 when no record has the name
position(ps, name) ==
    IF \E i \in 1..Len(ps) : ps[i].name = name
    THEN CHOOSE i \in 1..Len(ps) :
            /\ ps[i].name = name
            /\ \A j \in 1..(i - 1) : ps[j].name # name
    ELSE 0

remove(ps, name) ==
    LET idx == position(ps, name) IN
    IF idx = 0 THEN Outcome(ps, "ProjectNotFound", <<>>)
    ELSE Outcome(RemoveAt(ps, idx), "none", <<ps[idx]>>)

find(ps, name) ==
    LET idx == position(ps, name) IN
    IF idx = 0 THEN <<>> ELSE <<ps[idx]>>

\* the order of String::cmp on the tags of the model
TagOrder == <<"x", "y", "z">>
TagRank(t) == CHOOSE i \in 1..Len(TagOrder) : TagOrder[i] = t

\* insert t into the sorted sequence s, after the elements not greater
RECURSIVE InsertSorted(_, _)
InsertSorted(s, t) ==
    IF s = <<>> THEN <<t>>
    ELSE IF TagRank(t) < TagRank(Head(s)) THEN <<t>> \o s
    ELSE <<Head(s)>> \o InsertSorted(Tail(s), t)

\* Vec::sort (stable)
RECURSIVE Sort(_)
Sort(s) == IF s = <<>> THEN <<>> ELSE InsertSorted(Sort(SubSeq(s, 1, Len(s) - 1)), s[Len(s)])

\* add_tags without the final sort
\* an add_tags that tags every record of the name
add_tags_every(ps, name, tags) ==
    IF position(ps, name) = 0 THEN Outcome(ps, "ProjectNotFound", <<>>)
    ELSE Outcome([i \in 1..Len(ps) |->
                    IF ps[i].name = name
                    THEN [ps[i] EXCEPT !.tags = Sort(PushNew(@, tags))]
                    ELSE ps[i]], "none", <<>>)

add_tags_unsorted(ps, name, tags) ==
    LET idx == position(ps, name) IN
    IF idx = 0 THEN Outcome(ps, "ProjectNotFound", <<>>)
    ELSE Outcome([ps EXCEPT ![idx].tags = PushNew(@, tags)], "none", <<>>)

add_tags(ps, name, tags) ==
    LET idx == position(ps, name) IN
    IF idx = 0 THEN Outcome(ps, "ProjectNotFound", <<>>)
    ELSE Outcome([ps EXCEPT ![idx].tags = Sort(PushNew(@, tags))], "none", <<>>)

remove_tags(ps, name, tags) ==
    LET idx == position(ps, name)
        keep(t) == ~Contains(tags, t)
    IN  IF idx = 0 THEN Outcome(ps, "ProjectNotFound", <<>>)
        ELSE Outcome([ps EXCEPT ![idx].tags = SelectSeq(@, keep)], "none", <<>>)

find_orphaned(d, ps) ==
    LET gone(p) == ~Exists(d, p.path) IN SelectSeq(ps, gone)

\* the two halves of the partition taken for each other
remove_orphaned_swapped(d, ps) ==
    LET gone(p) == ~Exists(d, p.path)
        alive(p) == Exists(d, p.path)
    IN  Outcome(SelectSeq(ps, gone), "none", SelectSeq(ps, alive))

remove_orphaned(d, ps) ==
    LET gone(p) == ~Exists(d, p.path)
        alive(p) == Exists(d, p.path)
    IN  Outcome(SelectSeq(ps, alive), "none", SelectSeq(ps, gone))

\* register taking the name from the path even when an override is given
register_no_override(d, ps, path, name) ==
    LET c == canonicalize(d, path) IN
    IF ~c.ok THEN Outcome(ps, "PathNotFound", <<>>)
    ELSE IF ~IsDir(d, c.path) THEN Outcome(ps, "NotADirectory", <<>>)
    ELSE LET detection == detect_project(d, c.path)
             project == [name |-> c.path[Len(c.path)],
                         path |-> c.path,
                         vcs |-> detection.vcs,
                         build_systems |-> detection.build_systems,
                         artifact_dirs |-> detection.artifact_dirs,
                         tags |-> <<>>]
             added == add(ps, project)
         IN  IF added.err # "none" THEN added
             ELSE Outcome(added.projects, "none", <<project>>)

\* register without the is_dir test
register_any_kind(d, ps, path, name) ==
    LET c == canonicalize(d, path) IN
    IF ~c.ok THEN Outcome(ps, "PathNotFound", <<>>)
    ELSE LET detection == detect_project(d, c.path)
             project == [name |-> IF name # <<>> THEN name[1] ELSE c.path[Len(c.path)],
                         path |-> c.path,
                         vcs |-> detection.vcs,
                         build_systems |-> detection.build_systems,
                         artifact_dirs |-> detection.artifact_dirs,
                         tags |-> <<>>]
             added == add(ps, project)
         IN  IF added.err # "none" THEN added
             ELSE Outcome(added.projects, "none", <<project>>)

register(d, ps, path, name) ==
    LET c == canonicalize(d, path) IN
    IF ~c.ok THEN Outcome(ps, "PathNotFound", <<>>)
    ELSE IF ~IsDir(d, c.path) THEN Outcome(ps, "NotADirectory", <<>>)
    ELSE LET detection == detect_project(d, c.path)
             nm == IF name # <<>> THEN name[1]
                   ELSE IF file_name(c.path) # <<>> THEN file_name(c.path)[1]
                   ELSE "unknown"
             project == [name |-> nm,
                         path |-> c.path,
                         vcs |-> detection.vcs,
                         build_systems |-> detection.build_systems,
                         artifact_dirs |-> detection.artifact_dirs,
                         tags |-> <<>>]
             added == add(ps, project)
         IN  IF added.err # "none" THEN added
             ELSE Outcome(added.projects, "none", <<added.projects[Len(added.projects)]>>)


(***************************************************************************)
(* Specification Spec: the Registry under any sequence of calls, on a disk *)
(* whose project directories come and go                                   *)
(***************************************************************************)
RegDirs == {<<"w", "a">>, <<"v", "a">>, <<"w", "b">>}

RegMarkerSets ==
    {{}, {".git", "Cargo.toml"}, {"build.gradle", "build.gradle.kts", "package.json"}}

RegMarkers == UNION RegMarkerSets

\* the marker sets a directory is created with
RegMarkerSetsOf(p) ==
    IF p = <<"w", "a">> THEN RegMarkerSets \ {{}}
    ELSE IF p = <<"v", "a">> THEN {{"build.gradle", "build.gradle.kts", "package.json"}}
    ELSE {{}}

\* the directories the environment deletes and creates again
RegVolatile == {<<"w", "a">>, <<"v", "a">>}

\* the paths register is called with: the directories, a link to the first,
\* a spelling with "." and "..", a regular file
RegInputs == RegDirs \cup {<<"l">>, <<"v", "..", "w", ".", "b">>, <<"w", "f">>}

RegNameArgs == {<<>>, <<"b">>}

RegNames == {"a", "b"}

TagNames == {"x"}

RECURSIVE SeqsUpTo(_, _)
SeqsUpTo(S, n) ==
    IF n = 0 THEN {<<>>}
    ELSE LET shorter == SeqsUpTo(S, n - 1)
         IN  shorter \cup {Append(q, x) : q \in {r \in shorter : Len(r) = n - 1}, x \in S}

TagArgs == SeqsUpTo(TagNames, MaxTagArgs) \ {<<>>}

RegPaths ==
    {<<>>, <<"w">>, <<"v">>, <<"l">>, <<"w", "f">>} \cup RegDirs
        \cup {Join(p, m) : p \in RegDirs, m \in RegMarkers}

MarkerKind(m) == IF m = ".git" THEN "dir" ELSE "file"

\* the disk with directory p holding exactly the markers ms
WithDir(d, p, ms) ==
    [q \in DOMAIN d |->
        IF q = p THEN "dir"
        ELSE IF \E m \in RegMarkers : q = Join(p, m)
             THEN (IF q[Len(q)] \in ms THEN MarkerKind(q[Len(q)]) ELSE "none")
             ELSE d[q]]

\* std::fs::remove_dir_all(p)
WithoutDir(d, p) ==
    [q \in DOMAIN d |-> IF StartsWith(q, p) THEN "none" ELSE d[q]]

RegDisk0 ==
    LET base == [q \in RegPaths |->
                    IF q \in {<<>>, <<"w">>, <<"v">>} THEN "dir"
                    ELSE IF q = <<"l">> THEN "link"
                    ELSE IF q = <<"w", "f">> THEN "file"
                    ELSE "none"]
    IN  WithDir(WithDir(WithDir(base, <<"w", "a">>, {".git", "Cargo.toml"}),
                        <<"v", "a">>, {"build.gradle", "build.gradle.kts", "package.json"}),
                <<"w", "b">>, {})

Call(op, path, name, tags) == [op |-> op, path |-> path, name |-> name, tags |-> tags]

Ret(o) == [err |-> o.err, val |-> o.val]

ScanIdle ==
    /\ root = <<>>
    /\ max_depth = 0
    /\ walker = <<>>
    /\ project_roots = <<>>
    /\ found = <<>>
    /\ scan_pc = "idle"

ListIdle ==
    /\ persisted = <<>>
    /\ state = [selected |-> 0, git_statuses |-> <<>>, mode |-> [tag |-> "Browsing"], message |-> <<>>]
    /\ save_result = "none"
    /\ nav = [pc |-> "idle", result |-> <<>>]
    /\ last_key = "none"

PickIdle ==
    /\ names = <<>>
    /\ picker = [query |-> <<>>, filtered |-> <<>>, selected |-> 0]
    /\ pick_nav = [pc |-> "idle", result |-> <<>>]

StoreIdle == db_file = [kind |-> "missing"]

StatIdle ==
    /\ measured = <<>>
    /\ workers = <<>>
    /\ slots = <<>>
    /\ overview = <<>>

RegIdle ==
    /\ call = Call("none", <<>>, <<>>, <<>>)
    /\ ret = [err |-> "none", val |-> <<>>]
    /\ orphaned = <<>>

Init ==
    /\ disk = RegDisk0
    /\ projects = <<>>
    /\ RegIdle
    /\ StoreIdle
    /\ StatIdle
    /\ PickIdle
    /\ ScanIdle
    /\ ListIdle

Register(path, name) ==
    LET o == register(disk, projects, path, name) IN
    /\ projects' = o.projects
    /\ call' = Call("register", path, name, <<>>)
    /\ ret' = Ret(o)
    /\ orphaned' = <<>>
    /\ UNCHANGED <<disk, scanVars, listVars, pickVars, storeVars, statVars>>

Remove(name) ==
    LET o == remove(projects, name) IN
    /\ projects' = o.projects
    /\ call' = Call("remove", <<>>, <<name>>, <<>>)
    /\ ret' = Ret(o)
    /\ orphaned' = <<>>
    /\ UNCHANGED <<disk, scanVars, listVars, pickVars, storeVars, statVars>>

AddTags(name, tags) ==
    LET o == add_tags(projects, name, tags) IN
    /\ projects' = o.projects
    /\ call' = Call("add_tags", <<>>, <<name>>, tags)
    /\ ret' = Ret(o)
    /\ orphaned' = <<>>
    /\ UNCHANGED <<disk, scanVars, listVars, pickVars, storeVars, statVars>>

RemoveTags(name, tags) ==
    LET o == remove_tags(projects, name, tags) IN
    /\ projects' = o.projects
    /\ call' = Call("remove_tags", <<>>, <<name>>, tags)
    /\ ret' = Ret(o)
    /\ orphaned' = <<>>
    /\ UNCHANGED <<disk, scanVars, listVars, pickVars, storeVars, statVars>>

\* cmd_gc up to its prompt
FindOrphaned ==
    /\ orphaned' = find_orphaned(disk, projects)
    /\ call' = Call("find_orphaned", <<>>, <<>>, <<>>)
    /\ ret' = [err |-> "none", val |-> orphaned']
    /\ UNCHANGED <<disk, projects, scanVars, listVars, pickVars, storeVars, statVars>>

\* cmd_gc after the answer "y"
RemoveOrphaned ==
    LET o == remove_orphaned(disk, projects) IN
    /\ projects' = o.projects
    /\ call' = Call("remove_orphaned", <<>>, <<>>, <<>>)
    /\ ret' = Ret(o)
    /\ UNCHANGED <<disk, orphaned, scanVars, listVars, pickVars, storeVars, statVars>>

\* the environment deletes a project directory
DeleteDir(p) ==
    /\ Exists(disk, p)
    /\ disk' = WithoutDir(disk, p)
    /\ call' = Call("fs", p, <<>>, <<>>)
    /\ ret' = [err |-> "none", val |-> <<>>]
    /\ UNCHANGED <<projects, orphaned, scanVars, listVars, pickVars, storeVars, statVars>>

\* the environment creates a project directory with some markers
CreateDir(p, ms) ==
    /\ ~Exists(disk, p)
    /\ ms \in RegMarkerSetsOf(p)
    /\ disk' = WithDir(disk, p, ms)
    /\ call' = Call("fs", p, <<>>, <<>>)
    /\ ret' = [err |-> "none", val |-> <<>>]
    /\ UNCHANGED <<projects, orphaned, scanVars, listVars, pickVars, storeVars, statVars>>

Next ==
    \/ \E path \in RegInputs, name \in RegNameArgs : Register(path, name)
    \/ \E name \in RegNames : Remove(name)
    \/ \E name \in RegNames, tags \in TagArgs : AddTags(name, tags)
    \/ \E name \in RegNames, tags \in TagArgs : RemoveTags(name, tags)
    \/ FindOrphaned
    \/ RemoveOrphaned
    \/ \E p \in RegVolatile : DeleteDir(p)
    \/ \E p \in RegDirs, ms \in RegMarkerSets : CreateDir(p, ms)

Spec == Init /\ [][Next]_vars


(***************************************************************************)
(* scan_projects (detect.rs) over WalkDir                                  *)
(***************************************************************************)
\* the names of the model that begin with '.'
\* ".<ff>" stands for the name made of a dot and the byte 0xFF
DotNames == {".git", ".venv", ".gradle", ".h", ".<ff>"}

\* names that are not valid Unicode
NonUtf8Names == {".<ff>"}

\* OsStr::to_str: none for a name that is not valid Unicode
to_str(name) == IF name \in NonUtf8Names THEN <<>> ELSE <<name>>

\* str::starts_with('.')
starts_with_dot(name) == name \in DotNames

\* the entries of directory p, as read_dir lists them
Children(d, p) ==
    {q \in DOMAIN d : Len(q) = Len(p) + 1 /\ StartsWith(q, p) /\ d[q] # "none"}

\* the closure given to filter_entry; depth is the depth of entry e
filter_entry(d, e, depth) ==
    IF depth = 0 THEN TRUE
    ELSE IF d[e] # "dir" THEN FALSE
    ELSE IF to_str(e[Len(e)]) = <<>> THEN TRUE
    ELSE IF to_str(e[Len(e)])[1] \in ARTIFACT_DIR_NAMES THEN FALSE
    ELSE IF starts_with_dot(to_str(e[Len(e)])[1]) THEN FALSE
    ELSE TRUE

\* the descendant check that lets every level through
under_found_root_never(roots, path) == FALSE

\* the check against project_roots in the loop body
under_found_root(roots, path) ==
    \E i \in 1..Len(roots) : StartsWith(path, roots[i]) /\ path # roots[i]

\* a depth test that lets one level too many through
beyond_max_depth_late(depth, md) == depth > md + 1

\* WalkDir: the directory on top of the stack lies deeper than max_depth
beyond_max_depth(depth, md) == depth > md

\* WalkDir::next: leave the directories that are read out or too deep.
\* The entries of stack level k have depth k - 1.
RECURSIVE Settle(_, _)
Settle(w, md) ==
    IF w = <<>> THEN w
    ELSE IF beyond_max_depth(Len(w) - 1, md) \/ w[Len(w)] = {}
         THEN Settle(SubSeq(w, 1, Len(w) - 1), md)
         ELSE w

\* WalkDir (contents_first off): the entries of the directory just yielded
\* are read next
descend(w, entries) == Append(w, entries)

\* one entry e read from the directory on top of the stack: the filter, the
\* loop body, and the descent into e
ScanEntry(e) ==
    LET depth == Len(walker) - 1
        rest == [walker EXCEPT ![Len(walker)] = @ \ {e}]
        keep == filter_entry(disk, e, depth)
        opened == IF keep /\ disk[e] = "dir" THEN descend(rest, Children(disk, e)) ELSE rest
        w2 == Settle(opened, max_depth)
        isNew == /\ keep
                 /\ disk[e] = "dir"
                 /\ ~under_found_root(project_roots, e)
                 /\ is_project(disk, e)
    IN  /\ scan_pc = "walking"
        /\ walker # <<>>
        /\ e \in walker[Len(walker)]
        /\ walker' = w2
        /\ project_roots' = IF isNew THEN Append(project_roots, e) ELSE project_roots
        /\ found' = IF isNew THEN Append(found, e) ELSE found
        /\ scan_pc' = IF w2 = <<>> THEN "done" ELSE "walking"
        /\ UNCHANGED <<disk, projects, root, max_depth,
                       regVars, listVars, pickVars, storeVars, statVars>>

(***************************************************************************)
(* Specification SpecScan: scan_projects on every tree of a small family   *)
(***************************************************************************)
ScanRoot == <<"r">>

\* the directories a tree may have below the root
ScanDirs ==
    {<<"r", "p">>, <<"r", "p", "q">>, <<"r", "p", "q", "s">>, <<"r", "p", "t">>,
     <<"r", "target">>, <<"r", ".h">>, <<"r", ".<ff>">>, <<"r", "n">>, <<"r", "n", "m">>}

\* the marker each directory may hold
ScanMarkers ==
    {<<"r", "Cargo.toml">>, <<"r", "p", ".git">>, <<"r", "p", "q", "Cargo.toml">>,
     <<"r", "p", "q", "s", ".git">>, <<"r", "p", "t", "go.mod">>,
     <<"r", "target", "Cargo.toml">>, <<"r", ".<ff>", "Cargo.toml">>,
     <<"r", ".h", ".git">>, <<"r", "n", "m", "package.json">>}

\* directories that are in a tree only together with their marker
ScanMarkedOnly ==
    {<<"r", "p", "q", "s">>, <<"r", "p", "t">>, <<"r", "target">>, <<"r", ".h">>,
     <<"r", ".<ff>">>, <<"r", "n", "m">>}

ScanPaths == {ScanRoot, <<"r", "f">>} \cup ScanDirs \cup ScanMarkers

\* the directories scan_projects is called on: the top of the tree, an
\* artifact directory and a hidden directory
ScanRoots == {ScanRoot, <<"r", "target">>, <<"r", ".h">>}

Parent(p) == SubSeq(p, 1, Len(p) - 1)

\* the directories ds and markers ms make a tree
WellFormedTree(ds, ms) ==
    /\ \A p \in ds : Parent(p) = ScanRoot \/ Parent(p) \in ds
    /\ \A m \in ms : Parent(m) = ScanRoot \/ Parent(m) \in ds
    /\ \A p \in ds \cap ScanMarkedOnly : \E m \in ms : Parent(m) = p

ScanDisk(ds, ms) ==
    [q \in ScanPaths |->
        IF q = ScanRoot \/ q \in ds THEN "dir"
        ELSE IF q = <<"r", "f">> THEN "file"
        ELSE IF q \in ms THEN MarkerKind(q[Len(q)])
        ELSE "none"]

InitScan ==
    /\ \E ds \in SUBSET ScanDirs, ms \in SUBSET ScanMarkers :
            /\ WellFormedTree(ds, ms)
            /\ disk = ScanDisk(ds, ms)
    /\ root \in ScanRoots
    /\ disk[root] = "dir"
    /\ max_depth \in 0..MaxDepth
    /\ walker = <<{root}>>
    /\ project_roots = <<>>
    /\ found = <<>>
    /\ scan_pc = "walking"
    /\ projects = <<>>
    /\ RegIdle
    /\ StoreIdle
    /\ StatIdle
    /\ PickIdle
    /\ ListIdle

NextScan == \E e \in ScanPaths : ScanEntry(e)

SpecScan == InitScan /\ [][NextScan]_vars

(***************************************************************************)
(* The list navigator: run_list (tui/app.rs), menu_items (tui/actions.rs), *)
(* called by cmd_list (cli/mod.rs).  `selected` and `menu_selected` count  *)
(* from 0 as in the code, sequences from 1.  A formatted message is the    *)
(* tuple of its parts.  The calls that switch the terminal between the     *)
(* alternate screen and the shell are taken to succeed.                    *)
(***************************************************************************)
KeyCodes == {"Esc", "Enter", "Up", "Down", "Backspace", "q", "k", "j", "y", "Y", "n", "N"}

Browsing == [tag |-> "Browsing"]
ActionMenu(i) == [tag |-> "ActionMenu", menu_selected |-> i]
ViewingStats(ps) == [tag |-> "ViewingStats", stats |-> ps]
\* a confirmation that carries the other pending action
Confirming_crossed(label, pending) ==
    [tag |-> "Confirming", action |-> label,
     on_confirm |-> IF pending = "Remove" THEN "CleanArtifacts" ELSE "Remove"]

Confirming(label, pending) == [tag |-> "Confirming", action |-> label, on_confirm |-> pending]
CleanResult(msg) == [tag |-> "CleanResult", message |-> msg]

\* actions::menu_items: the ListAction of every item, in menu order
\* MenuItem.label of the item with the action
menu_label(action) ==
    CASE action = "ViewStats" -> "View stats"
      [] action = "CleanArtifacts" -> "Clean artifacts"
      [] action = "OpenEditor" -> "Open in editor"
      [] action = "OpenExplorer" -> "Open in explorer"
      [] action = "CdToProject" -> "cd to project"
      [] action = "Remove" -> "Remove"

\* a menu with Clean artifacts for every project
menu_items_always_clean(project) ==
    <<"ViewStats", "CleanArtifacts", "OpenEditor", "OpenExplorer", "CdToProject", "Remove">>

menu_items(project) ==
    <<"ViewStats">>
        \o (IF project.artifact_dirs # <<>> THEN <<"CleanArtifacts">> ELSE <<>>)
        \o <<"OpenEditor", "OpenExplorer", "CdToProject", "Remove">>

\* stats::collect_git_status: none unless the path is a repository; the
\* status itself is the collaborator's, here told apart by the branch
collect_git_status(d, path) ==
    IF Exists(d, Join(path, ".git"))
    THEN <<[branch |-> path[Len(path)], is_dirty |-> FALSE]>>
    ELSE <<>>

\* projects.iter().map(|p| collect_git_status(&p.path)).collect()
collect_statuses(d, ps) == [i \in 1..Len(ps) |-> collect_git_status(d, ps[i].path)]

\* stats::collect_project_stats, reduced to the name and the git status
collect_project_stats(d, project) ==
    [name |-> project.name, git |-> collect_git_status(d, project.path)]

\* a clean that deletes the project directory itself
CleanedDisk_project(d, path, artifact_dirs) ==
    [q \in DOMAIN d |-> IF StartsWith(q, path) THEN "none" ELSE d[q]]

\* clean::execute_clean when no deletion fails: the artifact directories
\* that exist are deleted
CleanedDisk(d, path, artifact_dirs) ==
    [q \in DOMAIN d |->
        IF \E i \in 1..Len(artifact_dirs) : StartsWith(q, Join(path, artifact_dirs[i]))
        THEN "none" ELSE d[q]]

\* ProjectDatabase::save from run_list: the file holds ps when the write
\* succeeded and is as before when it failed
SavedFile(file, ps, ok) == IF ok THEN ps ELSE file

\* Confirming, y, PendingAction::Remove, with `selected` left where it was
confirm_remove_unclamped(st, ps, d) ==
    LET name == ps[st.selected + 1].name
        left == RemoveAt(ps, st.selected + 1)
    IN  [projects |-> left,
         state |-> [selected |-> st.selected,
                    git_statuses |-> collect_statuses(d, left),
                    mode |-> Browsing,
                    message |-> << <<"Removed: ", name>> >>],
         brk |-> left = <<>>]

\* Confirming, y, PendingAction::Remove, with the git statuses left as they are
confirm_remove_stale(st, ps, d) ==
    LET name == ps[st.selected + 1].name
        left == RemoveAt(ps, st.selected + 1)
    IN  [projects |-> left,
         state |-> [selected |-> IF st.selected >= Len(left) /\ left # <<>>
                                 THEN Len(left) - 1 ELSE st.selected,
                    git_statuses |-> st.git_statuses,
                    mode |-> Browsing,
                    message |-> << <<"Removed: ", name>> >>],
         brk |-> left = <<>>]

\* Confirming, y, PendingAction::Remove: the new list and ListState, and
\* whether the loop breaks
confirm_remove(st, ps, d) ==
    LET name == ps[st.selected + 1].name
        left == RemoveAt(ps, st.selected + 1)
    IN  [projects |-> left,
         state |-> [selected |-> IF st.selected >= Len(left) /\ left # <<>>
                                 THEN Len(left) - 1 ELSE st.selected,
                    git_statuses |-> collect_statuses(d, left),
                    mode |-> Browsing,
                    message |-> << <<"Removed: ", name>> >>],
         brk |-> left = <<>>]

Running == [pc |-> "running", result |-> <<>>]
Done(result) == [pc |-> "done", result |-> result]

\* run_list up to the loop
StartList ==
    /\ nav.pc = "start"
    /\ IF projects = <<>>
       THEN /\ nav' = Done(<<>>)
            /\ UNCHANGED state
       ELSE /\ nav' = Running
            /\ state' = [selected |-> 0,
                         git_statuses |-> collect_statuses(disk, projects),
                         mode |-> Browsing,
                         message |-> <<>>]
    /\ UNCHANGED <<disk, projects, persisted, save_result, last_key, regVars, scanVars, pickVars, storeVars, statVars>>

\* Browsing where q and Esc yield the path of the selected project
KeyBrowsing_quit_path(key) ==
    /\ nav.pc = "running"
    /\ last_key' = key
    /\ state.mode.tag = "Browsing"
    /\ IF key \in {"q", "Esc"}
       THEN nav' = Done(<<projects[state.selected + 1].path>>) /\ UNCHANGED state
       ELSE /\ UNCHANGED nav
            /\ state' =
                IF key \in {"Up", "k"}
                THEN (IF state.selected > 0
                      THEN [state EXCEPT !.selected = @ - 1] ELSE state)
                ELSE IF key \in {"Down", "j"}
                THEN (IF state.selected + 1 < Len(projects)
                      THEN [state EXCEPT !.selected = @ + 1] ELSE state)
                ELSE IF key = "Enter"
                THEN (IF projects # <<>>
                      THEN [state EXCEPT !.mode = ActionMenu(0)] ELSE state)
                ELSE state
    /\ UNCHANGED <<disk, projects, persisted, save_result, regVars, scanVars, pickVars, storeVars, statVars>>

\* Browsing with a selection that wraps around at both ends
KeyBrowsing_wrap(key) ==
    /\ nav.pc = "running"
    /\ last_key' = key
    /\ state.mode.tag = "Browsing"
    /\ IF key \in {"q", "Esc"}
       THEN nav' = Done(<<>>) /\ UNCHANGED state
       ELSE /\ UNCHANGED nav
            /\ state' =
                IF key \in {"Up", "k"}
                THEN [state EXCEPT !.selected = (@ + Len(projects) - 1) % Len(projects)]
                ELSE IF key \in {"Down", "j"}
                THEN [state EXCEPT !.selected = (@ + 1) % Len(projects)]
                ELSE IF key = "Enter"
                THEN (IF projects # <<>>
                      THEN [state EXCEPT !.mode = ActionMenu(0)] ELSE state)
                ELSE state
    /\ UNCHANGED <<disk, projects, persisted, save_result, regVars, scanVars, pickVars, storeVars, statVars>>

KeyBrowsing(key) ==
    /\ nav.pc = "running"
    /\ last_key' = key
    /\ state.mode.tag = "Browsing"
    /\ IF key \in {"q", "Esc"}
       THEN nav' = Done(<<>>) /\ UNCHANGED state
       ELSE /\ UNCHANGED nav
            /\ state' =
                IF key \in {"Up", "k"}
                THEN (IF state.selected > 0
                      THEN [state EXCEPT !.selected = @ - 1] ELSE state)
                ELSE IF key \in {"Down", "j"}
                THEN (IF state.selected + 1 < Len(projects)
                      THEN [state EXCEPT !.selected = @ + 1] ELSE state)
                ELSE IF key = "Enter"
                THEN (IF projects # <<>>
                      THEN [state EXCEPT !.mode = ActionMenu(0)] ELSE state)
                ELSE state
    /\ UNCHANGED <<disk, projects, persisted, save_result, regVars, scanVars, pickVars, storeVars, statVars>>

\* a menu that ends the navigator when the editor or the file manager
\* cannot be started
KeyActionMenu_abort(key, launched) ==
    /\ nav.pc = "running"
    /\ last_key' = key
    /\ state.mode.tag = "ActionMenu"
    /\ LET menu_selected == state.mode.menu_selected
           project == projects[state.selected + 1]
           items == menu_items(project)
           item == IF menu_selected < Len(items) THEN items[menu_selected + 1] ELSE "none"
       IN  IF key = "Enter" /\ item = "CdToProject"
           THEN nav' = Done(<<project.path>>) /\ UNCHANGED state
           ELSE IF key = "Enter" /\ item \in {"OpenEditor", "OpenExplorer"} /\ ~launched
           THEN nav' = Done(<<>>) /\ UNCHANGED state
           ELSE /\ UNCHANGED nav
                /\ state' =
                    IF key = "Esc" THEN [state EXCEPT !.mode = Browsing]
                    ELSE IF key \in {"Up", "k"}
                    THEN (IF menu_selected > 0
                          THEN [state EXCEPT !.mode = ActionMenu(menu_selected - 1)] ELSE state)
                    ELSE IF key \in {"Down", "j"}
                    THEN (IF menu_selected + 1 < Len(items)
                          THEN [state EXCEPT !.mode = ActionMenu(menu_selected + 1)] ELSE state)
                    ELSE IF key # "Enter" THEN state
                    ELSE IF item = "ViewStats"
                    THEN [state EXCEPT !.mode = ViewingStats(collect_project_stats(disk, project))]
                    ELSE IF item = "CleanArtifacts"
                    THEN [state EXCEPT !.mode = Confirming("Clean artifacts", "CleanArtifacts")]
                    ELSE IF item = "OpenEditor"
                    THEN [state EXCEPT
                            !.mode = Browsing,
                            !.message = IF launched THEN @
                                        ELSE << <<"Failed to launch editor: ", "e">> >>]
                    ELSE IF item = "OpenExplorer"
                    THEN [state EXCEPT
                            !.mode = Browsing,
                            !.message = IF launched THEN << <<"Opened in file manager">> >>
                                        ELSE << <<"Failed to open file manager: ", "e">> >>]
                    ELSE IF item = "Remove"
                    THEN [state EXCEPT !.mode = Confirming("Remove project", "Remove")]
                    ELSE state
    /\ UNCHANGED <<disk, projects, persisted, save_result, regVars, scanVars, pickVars, storeVars, statVars>>

\* launched: whether the editor or the file manager could be started
KeyActionMenu(key, launched) ==
    /\ nav.pc = "running"
    /\ last_key' = key
    /\ state.mode.tag = "ActionMenu"
    /\ LET menu_selected == state.mode.menu_selected
           project == projects[state.selected + 1]
           items == menu_items(project)
           item == IF menu_selected < Len(items) THEN items[menu_selected + 1] ELSE "none"
       IN  IF key = "Enter" /\ item = "CdToProject"
           THEN nav' = Done(<<project.path>>) /\ UNCHANGED state
           ELSE /\ UNCHANGED nav
                /\ state' =
                    IF key = "Esc" THEN [state EXCEPT !.mode = Browsing]
                    ELSE IF key \in {"Up", "k"}
                    THEN (IF menu_selected > 0
                          THEN [state EXCEPT !.mode = ActionMenu(menu_selected - 1)] ELSE state)
                    ELSE IF key \in {"Down", "j"}
                    THEN (IF menu_selected + 1 < Len(items)
                          THEN [state EXCEPT !.mode = ActionMenu(menu_selected + 1)] ELSE state)
                    ELSE IF key # "Enter" THEN state
                    ELSE IF item = "ViewStats"
                    THEN [state EXCEPT !.mode = ViewingStats(collect_project_stats(disk, project))]
                    ELSE IF item = "CleanArtifacts"
                    THEN [state EXCEPT !.mode = Confirming("Clean artifacts", "CleanArtifacts")]
                    ELSE IF item = "OpenEditor"
                    THEN [state EXCEPT
                            !.mode = Browsing,
                            !.message = IF launched THEN @
                                        ELSE << <<"Failed to launch editor: ", "e">> >>]
                    ELSE IF item = "OpenExplorer"
                    THEN [state EXCEPT
                            !.mode = Browsing,
                            !.message = IF launched THEN << <<"Opened in file manager">> >>
                                        ELSE << <<"Failed to open file manager: ", "e">> >>]
                    ELSE IF item = "Remove"
                    THEN [state EXCEPT !.mode = Confirming("Remove project", "Remove")]
                    ELSE state
    /\ UNCHANGED <<disk, projects, persisted, save_result, regVars, scanVars, pickVars, storeVars, statVars>>

\* a stats view that Esc does not close
KeyViewingStats_no_esc(key) ==
    /\ nav.pc = "running"
    /\ last_key' = key
    /\ state.mode.tag = "ViewingStats"
    /\ state' = IF key \in {"q", "Enter"} THEN [state EXCEPT !.mode = Browsing] ELSE state
    /\ UNCHANGED <<disk, projects, persisted, save_result, nav, regVars, scanVars, pickVars, storeVars, statVars>>

KeyViewingStats(key) ==
    /\ nav.pc = "running"
    /\ last_key' = key
    /\ state.mode.tag = "ViewingStats"
    /\ state' = IF key \in {"Esc", "q", "Enter"} THEN [state EXCEPT !.mode = Browsing] ELSE state
    /\ UNCHANGED <<disk, projects, persisted, save_result, nav, regVars, scanVars, pickVars, storeVars, statVars>>

\* Confirming where a cancel also clears the status message
KeyConfirming_cancel_clears(key, ok) ==
    /\ nav.pc = "running"
    /\ last_key' = key
    /\ state.mode.tag = "Confirming"
    /\ IF key \in {"y", "Y"} /\ state.mode.on_confirm = "Remove"
       THEN LET r == confirm_remove(state, projects, disk)
            IN  /\ projects' = r.projects
                /\ persisted' = SavedFile(persisted, r.projects, ok)
                /\ save_result' = IF ok THEN "ok" ELSE "failed"
                /\ state' = r.state
                /\ nav' = IF r.brk THEN Done(<<>>) ELSE nav
                /\ UNCHANGED disk
       ELSE IF key \in {"y", "Y"}
       THEN LET project == projects[state.selected + 1]
            IN  /\ disk' = IF ok THEN CleanedDisk(disk, project.path, project.artifact_dirs)
                           ELSE disk
                /\ state' = [state EXCEPT !.mode =
                                IF ok THEN CleanResult(<<"Cleaned ", project.name, ": freed ", "bytes">>)
                                ELSE CleanResult(<<"Error: ", "e">>)]
                /\ UNCHANGED <<projects, persisted, save_result, nav>>
       ELSE /\ state' = IF key \in {"n", "N", "Esc"}
                        THEN [state EXCEPT !.mode = Browsing, !.message = <<>>] ELSE state
            /\ UNCHANGED <<disk, projects, persisted, save_result, nav>>
    /\ UNCHANGED <<regVars, scanVars, pickVars, storeVars, statVars>>

\* ok: whether db.save, respectively execute_clean, succeeds
KeyConfirming(key, ok) ==
    /\ nav.pc = "running"
    /\ last_key' = key
    /\ state.mode.tag = "Confirming"
    /\ IF key \in {"y", "Y"} /\ state.mode.on_confirm = "Remove"
       THEN LET r == confirm_remove(state, projects, disk)
            IN  /\ projects' = r.projects
                /\ persisted' = SavedFile(persisted, r.projects, ok)
                /\ save_result' = IF ok THEN "ok" ELSE "failed"
                /\ state' = r.state
                /\ nav' = IF r.brk THEN Done(<<>>) ELSE nav
                /\ UNCHANGED disk
       ELSE IF key \in {"y", "Y"}
       THEN LET project == projects[state.selected + 1]
            IN  /\ disk' = IF ok THEN CleanedDisk(disk, project.path, project.artifact_dirs)
                           ELSE disk
                /\ state' = [state EXCEPT !.mode =
                                IF ok THEN CleanResult(<<"Cleaned ", project.name, ": freed ", "bytes">>)
                                ELSE CleanResult(<<"Error: ", "e">>)]
                /\ UNCHANGED <<projects, persisted, save_result, nav>>
       ELSE /\ state' = IF key \in {"n", "N", "Esc"}
                        THEN [state EXCEPT !.mode = Browsing] ELSE state
            /\ UNCHANGED <<disk, projects, persisted, save_result, nav>>
    /\ UNCHANGED <<regVars, scanVars, pickVars, storeVars, statVars>>

\* a result overlay that q closes too
KeyCleanResult_q(key) ==
    /\ nav.pc = "running"
    /\ last_key' = key
    /\ state.mode.tag = "CleanResult"
    /\ state' = IF key \in {"Esc", "Enter", "q"} THEN [state EXCEPT !.mode = Browsing] ELSE state
    /\ UNCHANGED <<disk, projects, persisted, save_result, nav, regVars, scanVars, pickVars, storeVars, statVars>>

KeyCleanResult(key) ==
    /\ nav.pc = "running"
    /\ last_key' = key
    /\ state.mode.tag = "CleanResult"
    /\ state' = IF key \in {"Esc", "Enter"} THEN [state EXCEPT !.mode = Browsing] ELSE state
    /\ UNCHANGED <<disk, projects, persisted, save_result, nav, regVars, scanVars, pickVars, storeVars, statVars>>

(***************************************************************************)
(* Specification SpecList: cmd_list opens the navigator on the database    *)
(* file, on all of it or on the records of one tag                         *)
(***************************************************************************)
ListNames == <<"a", "b", "c", "d", "e">>

ListPath(i) == <<"w", ListNames[i]>>

\* every odd project is a Cargo project in a git repository, built once
ListDisk0 ==
    LET dirs == {ListPath(i) : i \in 1..Len(ListNames)}
        odd == {ListPath(i) : i \in {j \in 1..Len(ListNames) : j % 2 = 1}}
        all == {<<>>, <<"w">>} \cup dirs
                 \cup {Join(p, n) : p \in dirs, n \in {".git", "Cargo.toml", "target"}}
    IN  [q \in all |->
            IF q \in {<<>>, <<"w">>} \cup dirs THEN "dir"
            ELSE IF Parent(q) \in odd
                 THEN (IF q[Len(q)] = "Cargo.toml" THEN "file" ELSE "dir")
                 ELSE "none"]

\* the record of project i as register made it; all but the second are
\* tagged "x"
ListRecord(i) ==
    LET detection == detect_project(ListDisk0, ListPath(i))
    IN  [name |-> ListNames[i],
         path |-> ListPath(i),
         vcs |-> detection.vcs,
         build_systems |-> detection.build_systems,
         artifact_dirs |-> detection.artifact_dirs,
         tags |-> IF i = 2 THEN <<>> ELSE <<"x">>]

\* cmd_list: projects.retain(has the tag), every record without --tag
TagFiltered(ps, tag) ==
    LET has(p) == Contains(p.tags, tag[1])
    IN  IF tag = <<>> THEN ps ELSE SelectSeq(ps, has)

InitList ==
    /\ disk = ListDisk0
    /\ \E n \in 0..MaxProjects : persisted = [i \in 1..n |-> ListRecord(i)]
    /\ \E tag \in {<<>>, <<"x">>} : projects = TagFiltered(persisted, tag)
    /\ state = [selected |-> 0, git_statuses |-> <<>>, mode |-> Browsing, message |-> <<>>]
    /\ save_result = "none"
    /\ nav = [pc |-> "start", result |-> <<>>]
    /\ last_key = "none"
    /\ RegIdle
    /\ StoreIdle
    /\ StatIdle
    /\ PickIdle
    /\ ScanIdle

NextList ==
    \/ StartList
    \/ \E key \in KeyCodes : KeyBrowsing(key)
    \/ \E key \in KeyCodes, launched \in BOOLEAN : KeyActionMenu(key, launched)
    \/ \E key \in KeyCodes : KeyViewingStats(key)
    \/ \E key \in KeyCodes, ok \in BOOLEAN : KeyConfirming(key, ok)
    \/ \E key \in KeyCodes : KeyCleanResult(key)

SpecList == InitList /\ [][NextList]_vars

(***************************************************************************)
(* Properties of the Registry (specification Spec)                         *)
(***************************************************************************)
\* s has no element twice
NoRepeat(s) == \A i, j \in 1..Len(s) : i # j => s[i] # s[j]

\* the place of record r in the sequence s, 0 when absent
PlaceOf(s, r) == IF \E i \in 1..Len(s) : s[i] = r
                 THEN CHOOSE i \in 1..Len(s) : s[i] = r
                 ELSE 0

\* s holds records of t only, each once, in the order they have in t
KeepsOrderOf(s, t) ==
    /\ NoRepeat(s)
    /\ \A k \in 1..Len(s) : PlaceOf(t, s[k]) # 0
    /\ \A k, l \in 1..Len(s) : k < l => PlaceOf(t, s[k]) < PlaceOf(t, s[l])

UniquePaths ==
    \A i, j \in 1..Len(projects) : i # j => projects[i].path # projects[j].path

\* a register step whose path resolves to a path some record already has
DuplicateRegisterStep ==
    /\ call'.op = "register"
    /\ LET c == canonicalize(disk, call'.path)
       IN  c.ok /\ \E i \in 1..Len(projects) : projects[i].path = c.path

\* C1: under every sequence of register, remove, remove_orphaned, add_tags
\* and remove_tags calls from the empty Registry no two records share a
\* canonical path, and a register on a path that resolves to a registered
\* canonical path fails with ProjectAlreadyExists and changes nothing.
C1_UniquePaths ==
    /\ []UniquePaths
    /\ [][DuplicateRegisterStep =>
            (ret'.err = "ProjectAlreadyExists" /\ projects' = projects)]_vars

\* a link to a registered directory was registered again and refused
C1_Witness ==
    /\ call.op = "register"
    /\ call.path = <<"l">>
    /\ ret.err = "ProjectAlreadyExists"
    /\ Len(projects) >= 2

\* C2: after remove and after remove_orphaned the records left are exactly
\* the records not removed, with the fields and in the relative order they
\* had before.
C2_OrderPreserved ==
    [][call'.op \in {"remove", "remove_orphaned"} =>
        /\ KeepsOrderOf(projects', projects)
        /\ Range(projects') = Range(projects) \ Range(ret'.val)
        /\ Len(projects') + Len(ret'.val) = Len(projects)]_vars

\* a record was removed by name and two records are left
C2_Witness ==
    /\ call.op = "remove"
    /\ ret.err = "none"
    /\ Len(projects) = 2

\* the records of ps that have the name, as places in ps
PlacesOfName(ps, name) == {i \in 1..Len(ps) : ps[i].name = name}

\* C9: remove(name) fails with ProjectNotFound and changes nothing when no
\* record has the name; otherwise it detaches and returns exactly the first
\* record of that name.  When one record had the name none has it afterwards,
\* when two had it the later one is left and is the one find returns.
C9_RemoveByName ==
    [][call'.op = "remove" =>
        LET name == call'.name[1]
            held == PlacesOfName(projects, name)
        IN  IF held = {}
            THEN ret'.err = "ProjectNotFound" /\ ret'.val = <<>> /\ projects' = projects
            ELSE LET first == CHOOSE i \in held : \A j \in held : i <= j
                 IN  /\ ret'.err = "none"
                     /\ ret'.val = <<projects[first]>>
                     /\ Len(projects') = Len(projects) - 1
                     /\ Range(projects') = Range(projects) \ {projects[first]}
                     /\ Cardinality(held) = 1 =>
                            /\ find(projects', name) = <<>>
                            /\ PlacesOfName(projects', name) = {}
                     /\ Cardinality(held) = 2 =>
                            LET later == CHOOSE i \in held : i # first
                            IN  find(projects', name) = <<projects[later]>>]_vars

\* a record was removed by a name that another record still has
C9_Witness ==
    /\ call.op = "remove"
    /\ ret.err = "none"
    /\ \E i \in 1..Len(projects) :
            /\ projects[i].name = call.name[1]
            /\ projects[i].path # ret.val[1].path

\* the records of ps whose path is not on the disk d
OrphansOn(d, ps) == {r \in Range(ps) : ~Exists(d, r.path)}

\* C10: find_orphaned returns exactly the records whose path does not exist
\* when it is called, in insertion order; remove_orphaned decides by the disk
\* as it is at its own call, returns exactly the records orphaned then and
\* leaves exactly the others.
C10_Orphans ==
    [][/\ call'.op = "find_orphaned" =>
            /\ KeepsOrderOf(ret'.val, projects)
            /\ Range(ret'.val) = OrphansOn(disk, projects)
            /\ projects' = projects
       /\ call'.op = "remove_orphaned" =>
            /\ KeepsOrderOf(ret'.val, projects)
            /\ Range(ret'.val) = OrphansOn(disk, projects)
            /\ KeepsOrderOf(projects', projects)
            /\ Range(projects') = Range(projects) \ OrphansOn(disk, projects)]_vars

\* remove_orphaned removed more than the find_orphaned before it had listed,
\* a directory having been deleted in between, and emptied the Registry
C10_Witness ==
    /\ call.op = "remove_orphaned"
    /\ orphaned # <<>>
    /\ Len(ret.val) > Len(orphaned)
    /\ projects = <<>>


(***************************************************************************)
(* Properties of the scan (specification SpecScan)                         *)
(***************************************************************************)
\* the depth of path p below the root of the scan
DepthOf(p) == Len(p) - Len(root)

\* C7: scan returns no directory that lies strictly below another returned
\* directory; a root that is a project root is the only result.
C7_NoNestedResult ==
    scan_pc = "done" =>
        /\ \A i, j \in 1..Len(found) :
                ~(StartsWith(found[i], found[j]) /\ found[i] # found[j])
        /\ is_project(disk, root) => found = <<root>>

\* project p at depth 1 was returned and the project q inside it was not,
\* though max_depth reaches q
C7_Witness ==
    /\ scan_pc = "done"
    /\ max_depth >= 2
    /\ is_project(disk, <<"r", "p", "q">>)
    /\ Contains(found, <<"r", "p">>)
    /\ ~Contains(found, <<"r", "p", "q">>)

\* C8: scan returns no directory deeper than max_depth below the root; with
\* max_depth 0 it returns the root if that is a project root, else nothing.
C8_DepthBound ==
    scan_pc = "done" =>
        /\ \A i \in 1..Len(found) : DepthOf(found[i]) <= max_depth
        /\ max_depth = 0 =>
                found = IF is_project(disk, root) THEN <<root>> ELSE <<>>

\* a scan of depth 1 ended without the project that lies at depth 2 under a
\* directory that is no project
C8_Witness ==
    /\ scan_pc = "done"
    /\ max_depth = 1
    /\ root = ScanRoot
    /\ ~is_project(disk, ScanRoot)
    /\ is_project(disk, <<"r", "n", "m">>)
    /\ ~Contains(found, <<"r", "n", "m">>)


(***************************************************************************)
(* Properties of the list navigator (specification SpecList)               *)
(***************************************************************************)
\* the step handles y or Y in Confirming with the Remove action pending
ConfirmedRemoveStep ==
    /\ nav.pc = "running"
    /\ state.mode.tag = "Confirming"
    /\ state.mode.on_confirm = "Remove"
    /\ last_key' \in {"y", "Y"}

Min(a, b) == IF a <= b THEN a ELSE b

\* C3: when a confirmed Remove empties the live list the navigator ends
\* with no result and the database file holds no record.
C3_RemoveLastEnds ==
    [][(ConfirmedRemoveStep /\ projects' = <<>>) =>
            (nav' = Done(<<>>) /\ persisted' = <<>>)]_vars

\* the statement of C3 for the steps whose write succeeds
C3_WhenSaved ==
    [][(ConfirmedRemoveStep /\ projects' = <<>> /\ save_result' = "ok") =>
            (nav' = Done(<<>>) /\ persisted' = <<>>)]_vars

\* C4: a confirmed Remove on a list of two or more removes exactly the
\* record at `selected`, writes the new list to the database file, sets
\* `selected` to min(selected, new length - 1), sets a message, returns to
\* Browsing and does not end the navigator.
C4_RemoveKeepsBrowsing ==
    [][(ConfirmedRemoveStep /\ Len(projects) >= 2) =>
            /\ Len(projects') = Len(projects) - 1
            /\ \A i \in 1..Len(projects') :
                    projects'[i] = IF i <= state.selected THEN projects[i] ELSE projects[i + 1]
            /\ persisted' = projects'
            /\ state'.selected = Min(state.selected, Len(projects') - 1)
            /\ state'.message # <<>>
            /\ state'.mode = Browsing
            /\ nav'.pc = "running"]_vars

\* the statement of C4 for the steps whose write succeeds
C4_WhenSaved ==
    [][(ConfirmedRemoveStep /\ Len(projects) >= 2 /\ save_result' = "ok") =>
            /\ Len(projects') = Len(projects) - 1
            /\ \A i \in 1..Len(projects') :
                    projects'[i] = IF i <= state.selected THEN projects[i] ELSE projects[i + 1]
            /\ persisted' = projects'
            /\ state'.selected = Min(state.selected, Len(projects') - 1)
            /\ state'.message # <<>>
            /\ state'.mode = Browsing
            /\ nav'.pc = "running"]_vars

\* the failure of db.save is reported: run_list returns an error, or the
\* message is not the plain confirmation of the removal
SaveFailureSurfaced(n, st) ==
    \/ n.pc = "error"
    \/ st.message # <<>> /\ st.message[1][1] # "Removed: "

\* C5: when the write of the database file fails in a confirmed Remove the
\* failure is returned or shown, never dropped.
C5_SaveFailureSurfaced ==
    [][(ConfirmedRemoveStep /\ save_result' = "failed") =>
            SaveFailureSurfaced(nav', state')]_vars

\* C6: in every state that is rendered the git status cache has one entry
\* per project of the live list, entry i being the status of the project at
\* index i; so it is aligned again at the end of the key press that removed
\* a project.
C6_StatusCacheAligned ==
    nav.pc = "running" =>
        /\ Len(state.git_statuses) = Len(projects)
        /\ \A i \in 1..Len(projects) :
                state.git_statuses[i] = collect_git_status(disk, projects[i].path)

\* a project without repository was removed from above one with a
\* repository, which is rendered next
C6_Witness ==
    /\ nav.pc = "running"
    /\ last_key \in {"y", "Y"}
    /\ state.message = << <<"Removed: ", "b">> >>
    /\ state.selected = 1
    /\ Len(projects) = 2
    /\ state.git_statuses[2] # <<>>

(***************************************************************************)
(* Specification SpecTags: add_tags and remove_tags, with three tag names, *)
(* on two registered records                                               *)
(***************************************************************************)
TagNames3 == {"x", "y", "z"}

TagArgs3 == SeqsUpTo(TagNames3, MaxTagArgs) \ {<<>>}

\* the Registry after `prj add w/a` and `prj add w/b`
TagProjects0 ==
    register(RegDisk0, register(RegDisk0, <<>>, <<"w", "a">>, <<>>).projects,
             <<"w", "b">>, <<>>).projects

InitTags ==
    /\ disk = RegDisk0
    /\ projects = TagProjects0
    /\ RegIdle
    /\ StoreIdle
    /\ StatIdle
    /\ PickIdle
    /\ ScanIdle
    /\ ListIdle

NextTags ==
    \/ \E name \in RegNames, tags \in TagArgs3 : AddTags(name, tags)
    \/ \E name \in RegNames, tags \in TagArgs3 : RemoveTags(name, tags)

SpecTags == InitTags /\ [][NextTags]_vars

(***************************************************************************)
(* Fuzzy matcher (fuzzy.rs).  A String is the sequence of its characters;  *)
(* a candidate name is turned into its characters by Utf32Str.  Scoring is *)
(* done by the nucleo crate: Pattern::new makes one atom of every          *)
(* whitespace-separated word of the query, an atom matches a haystack      *)
(* that has its characters in order, ignoring case unless the atom has an  *)
(* uppercase character (CaseMatching::Smart), and the score of a pattern   *)
(* is the sum of the scores of its atoms, 0 for a pattern without atoms.   *)
(* The score of an atom keeps the shape of nucleo's: a fixed score per     *)
(* matched character, a bonus at the start of the haystack and a bonus for *)
(* consecutive characters.                                                 *)
(***************************************************************************)
PickChars == {"a", "b", "A", " "}

is_uppercase(c) == c \in {"A", "B"}

to_lowercase(c) == IF c = "A" THEN "a" ELSE IF c = "B" THEN "b" ELSE c

\* Utf32Str::new(item): the characters of a candidate name
Utf32Str(item) ==
    CASE item = "ab" -> <<"a", "b">>
      [] item = "ba" -> <<"b", "a">>
      [] item = "Ab" -> <<"A", "b">>
      [] item = "bb" -> <<"b", "b">>
      [] OTHER -> <<>>

FuzzyMatch(index, score) == [index |-> index, score |-> score]

\* the words of the query, split at whitespace; word is the one being read
RECURSIVE Words(_, _, _)
Words(query, word, acc) ==
    IF query = <<>> THEN (IF word = <<>> THEN acc ELSE Append(acc, word))
    ELSE IF Head(query) = " "
         THEN Words(Tail(query), <<>>, IF word = <<>> THEN acc ELSE Append(acc, word))
         ELSE Words(Tail(query), Append(word, Head(query)), acc)

\* Pattern::new(query, Smart, Smart, Fuzzy): the atoms of the pattern
pattern_atoms(query) == Words(query, <<>>, <<>>)

\* the leftmost positions, from position from on, at which the haystack has
\* the characters of the needle in order
RECURSIVE match_positions(_, _, _, _)
match_positions(needle, haystack, from, ignore_case) ==
    IF needle = <<>> THEN [ok |-> TRUE, at |-> <<>>]
    ELSE IF from > Len(haystack) THEN [ok |-> FALSE, at |-> <<>>]
    ELSE IF (IF ignore_case THEN to_lowercase(haystack[from]) = Head(needle)
                            ELSE haystack[from] = Head(needle))
         THEN LET rest == match_positions(Tail(needle), haystack, from + 1, ignore_case)
              IN  [ok |-> rest.ok, at |-> <<from>> \o rest.at]
         ELSE match_positions(needle, haystack, from + 1, ignore_case)

\* Atom::score: None (<<>>) without a match
atom_score(needle, haystack) ==
    LET ignore_case == \A i \in 1..Len(needle) : ~is_uppercase(needle[i])
        m == match_positions(needle, haystack, 1, ignore_case)
        consecutive == {i \in 1..(Len(m.at) - 1) : m.at[i + 1] = m.at[i] + 1}
    IN  IF ~m.ok THEN <<>>
        ELSE <<16 * Len(m.at) + (IF m.at[1] = 1 THEN 8 ELSE 0) + 4 * Cardinality(consecutive)>>

\* Pattern::score: the sum over the atoms, None when one of them is None
RECURSIVE pattern_score(_, _)
pattern_score(atoms, haystack) ==
    IF atoms = <<>> THEN <<0>>
    ELSE LET first == atom_score(Head(atoms), haystack)
             rest == pattern_score(Tail(atoms), haystack)
         IN  IF first = <<>> \/ rest = <<>> THEN <<>> ELSE <<first[1] + rest[1]>>

\* a map that keeps the candidates without a match, with score 0
RECURSIVE Scored_zero(_, _, _)
Scored_zero(atoms, items, i) ==
    IF i > Len(items) THEN <<>>
    ELSE LET score == pattern_score(atoms, Utf32Str(items[i]))
         IN  <<FuzzyMatch(i - 1, IF score = <<>> THEN 0 ELSE score[1])>>
                \o Scored_zero(atoms, items, i + 1)

\* the filter_map of filter over items[i..]
RECURSIVE Scored(_, _, _)
Scored(atoms, items, i) ==
    IF i > Len(items) THEN <<>>
    ELSE LET score == pattern_score(atoms, Utf32Str(items[i]))
         IN  (IF score = <<>> THEN <<>> ELSE <<FuzzyMatch(i - 1, score[1])>>)
                \o Scored(atoms, items, i + 1)

\* a sort that puts the later of two equal scores first
RECURSIVE sort_by_score_unstable(_)
sort_by_score_unstable(s) ==
    LET before(m) == {i \in 1..(Len(s) - 1) : s[i].score > m.score}
        sorted == sort_by_score_unstable(SubSeq(s, 1, Len(s) - 1))
        k == Cardinality(before(s[Len(s)]))
    IN  IF s = <<>> THEN <<>>
        ELSE SubSeq(sorted, 1, k) \o <<s[Len(s)]>> \o SubSeq(sorted, k + 1, Len(sorted))

\* insert m after the elements of s whose score is not smaller
RECURSIVE InsertByScore(_, _)
InsertByScore(s, m) ==
    IF s = <<>> THEN <<m>>
    ELSE IF Head(s).score < m.score THEN <<m>> \o s
    ELSE <<Head(s)>> \o InsertByScore(Tail(s), m)

\* results.sort_by(|a, b| b.score.cmp(&a.score)), a stable sort
RECURSIVE sort_by_score(_)
sort_by_score(s) ==
    IF s = <<>> THEN <<>>
    ELSE InsertByScore(sort_by_score(SubSeq(s, 1, Len(s) - 1)), s[Len(s)])

\* filter numbering the candidates of an empty query from one
filter_one_based(query, items) ==
    IF query = <<>> THEN [i \in 1..Len(items) |-> FuzzyMatch(i, 0)]
    ELSE sort_by_score(Scored(pattern_atoms(query), items, 1))

filter(query, items) ==
    IF query = <<>> THEN [i \in 1..Len(items) |-> FuzzyMatch(i - 1, 0)]
    ELSE sort_by_score(Scored(pattern_atoms(query), items, 1))

(***************************************************************************)
(* Specification SpecFilter: filter called once with any query of up to    *)
(* MaxQuery characters and any list of up to MaxItems candidates           *)
(***************************************************************************)
ItemNames == {"ab", "ba", "Ab"}

Queries == SeqsUpTo(PickChars, MaxQuery)

InitFilter ==
    /\ disk = RegDisk0
    /\ projects = <<>>
    /\ RegIdle
    /\ StoreIdle
    /\ StatIdle
    /\ ScanIdle
    /\ ListIdle
    /\ names \in SeqsUpTo(ItemNames, MaxItems)
    /\ \E query \in Queries : picker = [query |-> query, filtered |-> <<>>, selected |-> 0]
    /\ pick_nav = [pc |-> "call", result |-> <<>>]

Filter ==
    /\ pick_nav.pc = "call"
    /\ picker' = [picker EXCEPT !.filtered = filter(picker.query, names)]
    /\ pick_nav' = [pick_nav EXCEPT !.pc = "returned"]
    /\ UNCHANGED <<disk, projects, names, regVars, scanVars, listVars, storeVars, statVars>>

NextFilter == Filter

SpecFilter == InitFilter /\ [][NextFilter]_vars

(***************************************************************************)
(* Specification SpecPicker: cmd_picker and the loop of run_picker, one    *)
(* step per key press                                                      *)
(***************************************************************************)
PickKeys == {"Esc", "Enter", "Up", "Down", "Backspace", "Tab"} \cup PickChars

PickerState(query, filtered, selected) ==
    [query |-> query, filtered |-> filtered, selected |-> selected]

\* String::pop
pop(str) == IF str = <<>> THEN <<>> ELSE SubSeq(str, 1, Len(str) - 1)

\* a handler that leaves the selection where it is when the query changes
picker_key_keep_selected(st, key, ps, items) ==
    CASE key = "Esc" -> [state |-> st, brk |-> << <<>> >>]
      [] key = "Enter" ->
            [state |-> st,
             brk |-> IF st.selected < Len(st.filtered)
                     THEN << <<ps[st.filtered[st.selected + 1].index + 1].path>> >>
                     ELSE << <<>> >>]
      [] key = "Up" ->
            [state |-> IF st.selected > 0 THEN [st EXCEPT !.selected = @ - 1] ELSE st,
             brk |-> <<>>]
      [] key = "Down" ->
            [state |-> IF st.selected + 1 < Len(st.filtered)
                       THEN [st EXCEPT !.selected = @ + 1] ELSE st,
             brk |-> <<>>]
      [] key = "Backspace" ->
            [state |-> PickerState(pop(st.query), filter(pop(st.query), items), st.selected),
             brk |-> <<>>]
      [] key \in PickChars ->
            [state |-> PickerState(Append(st.query, key),
                                   filter(Append(st.query, key), items), st.selected),
             brk |-> <<>>]
      [] OTHER -> [state |-> st, brk |-> <<>>]

\* a handler that takes the project at the selected row of the whole list
picker_key_by_row(st, key, ps, items) ==
    CASE key = "Esc" -> [state |-> st, brk |-> << <<>> >>]
      [] key = "Enter" ->
            [state |-> st,
             brk |-> IF st.selected < Len(st.filtered)
                     THEN << <<ps[st.selected + 1].path>> >>
                     ELSE << <<>> >>]
      [] key = "Up" ->
            [state |-> IF st.selected > 0 THEN [st EXCEPT !.selected = @ - 1] ELSE st,
             brk |-> <<>>]
      [] key = "Down" ->
            [state |-> IF st.selected + 1 < Len(st.filtered)
                       THEN [st EXCEPT !.selected = @ + 1] ELSE st,
             brk |-> <<>>]
      [] key = "Backspace" ->
            [state |-> PickerState(pop(st.query), filter(pop(st.query), items), 0),
             brk |-> <<>>]
      [] key \in PickChars ->
            [state |-> PickerState(Append(st.query, key),
                                   filter(Append(st.query, key), items), 0),
             brk |-> <<>>]
      [] OTHER -> [state |-> st, brk |-> <<>>]

\* the match on key.code of run_picker: the next state, and the value the
\* loop breaks with (<<>> when it goes on)
picker_key(st, key, ps, items) ==
    CASE key = "Esc" -> [state |-> st, brk |-> << <<>> >>]
      [] key = "Enter" ->
            [state |-> st,
             brk |-> IF st.selected < Len(st.filtered)
                     THEN << <<ps[st.filtered[st.selected + 1].index + 1].path>> >>
                     ELSE << <<>> >>]
      [] key = "Up" ->
            [state |-> IF st.selected > 0 THEN [st EXCEPT !.selected = @ - 1] ELSE st,
             brk |-> <<>>]
      [] key = "Down" ->
            [state |-> IF st.selected + 1 < Len(st.filtered)
                       THEN [st EXCEPT !.selected = @ + 1] ELSE st,
             brk |-> <<>>]
      [] key = "Backspace" ->
            [state |-> PickerState(pop(st.query), filter(pop(st.query), items), 0),
             brk |-> <<>>]
      [] key \in PickChars ->
            [state |-> PickerState(Append(st.query, key),
                                   filter(Append(st.query, key), items), 0),
             brk |-> <<>>]
      [] OTHER -> [state |-> st, brk |-> <<>>]

\* cmd_picker and run_picker up to the loop
StartPicker ==
    /\ pick_nav.pc = "start"
    /\ IF projects = <<>>
       THEN /\ pick_nav' = Done(<<>>)
            /\ UNCHANGED <<names, picker>>
       ELSE /\ pick_nav' = Running
            /\ names' = [i \in 1..Len(projects) |-> projects[i].name]
            /\ picker' = PickerState(<<>>, filter(<<>>, names'), 0)
    /\ UNCHANGED <<disk, projects, regVars, scanVars, listVars, storeVars, statVars>>

\* one key press in run_picker
KeyPicker(key) ==
    LET r == picker_key(picker, key, projects, names) IN
    /\ pick_nav.pc = "running"
    /\ key \in PickChars => Len(picker.query) < MaxQuery
    /\ picker' = r.state
    /\ pick_nav' = IF r.brk = <<>> THEN pick_nav ELSE Done(r.brk[1])
    /\ last_key' = key
    /\ UNCHANGED <<disk, projects, names, regVars, scanVars, persisted, state, save_result, nav, storeVars, statVars>>

PickNames == <<"ab", "ba", "Ab", "bb", "ab">>

\* the record of project i, registered under the name PickNames[i]
PickRecord(i) == [ListRecord(i) EXCEPT !.name = PickNames[i]]

InitPicker ==
    /\ disk = ListDisk0
    /\ \E n \in 0..MaxProjects : projects = [i \in 1..n |-> PickRecord(i)]
    /\ RegIdle
    /\ StoreIdle
    /\ StatIdle
    /\ ScanIdle
    /\ ListIdle
    /\ names = <<>>
    /\ picker = PickerState(<<>>, <<>>, 0)
    /\ pick_nav = [pc |-> "start", result |-> <<>>]

NextPicker ==
    \/ StartPicker
    \/ \E key \in PickKeys : KeyPicker(key)

SpecPicker == InitPicker /\ [][NextPicker]_vars

(***************************************************************************)
(* Specification SpecLoop: the loops of run_list and run_picker step by    *)
(* step: terminal.draw, then event::poll and event::read, then the         *)
(* handling of the event when it is a key press                            *)
(***************************************************************************)
\* what event::poll and event::read give other than a key press: no event
\* within the 50 ms, an event that is no key event, and key events of the
\* kinds Release and Repeat
OtherEvents == {"timeout", "resize", "release", "repeat"}

\* terminal.draw(render_list): the state is read, not written
DrawList ==
    /\ nav.pc = "running"
    /\ last_key # "draw"
    /\ last_key' = "draw"
    /\ UNCHANGED <<disk, projects, persisted, state, save_result, nav, regVars, scanVars, pickVars, storeVars, statVars>>

\* terminal.draw(render_picker)
DrawPicker ==
    /\ pick_nav.pc = "running"
    /\ last_key # "draw"
    /\ last_key' = "draw"
    /\ UNCHANGED <<disk, projects, persisted, state, save_result, nav, regVars, scanVars, pickVars, storeVars, statVars>>

\* run_list: a key event of kind Press, handled by the arm of the mode
PressList(key) ==
    /\ last_key = "draw"
    /\ \/ KeyBrowsing(key)
       \/ \E launched \in BOOLEAN : KeyActionMenu(key, launched)
       \/ KeyViewingStats(key)
       \/ \E ok \in BOOLEAN : KeyConfirming(key, ok)
       \/ KeyCleanResult(key)

\* run_picker: a key event of kind Press
PressPicker(key) ==
    /\ last_key = "draw"
    /\ KeyPicker(key)

\* a list loop that takes the release of a key for Esc in every overlay
OtherEventList_handled(event) ==
    /\ nav.pc = "running"
    /\ last_key = "draw"
    /\ last_key' = event
    /\ state' = IF event = "release" THEN [state EXCEPT !.mode = Browsing] ELSE state
    /\ UNCHANGED <<disk, projects, persisted, save_result, nav, regVars, scanVars, pickVars, storeVars, statVars>>

\* run_list: the poll timed out, or the event is no key press; the loop
\* goes on with the next draw
OtherEventList(event) ==
    /\ nav.pc = "running"
    /\ last_key = "draw"
    /\ last_key' = event
    /\ UNCHANGED <<disk, projects, persisted, state, save_result, nav, regVars, scanVars, pickVars, storeVars, statVars>>

\* run_picker: the poll timed out, or the event is no key press
OtherEventPicker(event) ==
    /\ pick_nav.pc = "running"
    /\ last_key = "draw"
    /\ last_key' = event
    /\ UNCHANGED <<disk, projects, persisted, state, save_result, nav, regVars, scanVars, pickVars, storeVars, statVars>>

\* cmd_list on a database file of two projects, or cmd_picker on one of three
InitLoop ==
    /\ disk = ListDisk0
    /\ RegIdle
    /\ StoreIdle
    /\ StatIdle
    /\ ScanIdle
    /\ \/ /\ persisted = [i \in 1..2 |-> ListRecord(i)]
          /\ projects = persisted
          /\ state = [selected |-> 0, git_statuses |-> <<>>, mode |-> Browsing, message |-> <<>>]
          /\ save_result = "none"
          /\ nav = [pc |-> "start", result |-> <<>>]
          /\ last_key = "none"
          /\ PickIdle
       \/ /\ projects = [i \in 1..3 |-> PickRecord(i)]
          /\ ListIdle
          /\ names = <<>>
          /\ picker = PickerState(<<>>, <<>>, 0)
          /\ pick_nav = [pc |-> "start", result |-> <<>>]

NextLoop ==
    \/ StartList
    \/ StartPicker
    \/ DrawList
    \/ DrawPicker
    \/ \E key \in KeyCodes : PressList(key)
    \/ \E key \in PickKeys : PressPicker(key)
    \/ \E event \in OtherEvents : OtherEventList(event)
    \/ \E event \in OtherEvents : OtherEventPicker(event)

SpecLoop == InitLoop /\ [][NextLoop]_vars

(***************************************************************************)
(* Specification SpecDetect: detect_project and is_project called on a     *)
(* directory that holds any set of the markers                             *)
(***************************************************************************)
DetectPath == <<"p">>

AllMarkers == {".git"} \cup {BUILD_SYSTEMS[i].marker : i \in 1..Len(BUILD_SYSTEMS)}

\* the disk with the directory DetectPath holding exactly the markers ms
DetectDisk(ms) ==
    [q \in {<<>>, DetectPath} \cup {Join(DetectPath, m) : m \in AllMarkers} |->
        IF q \in {<<>>, DetectPath} THEN "dir"
        ELSE IF q[Len(q)] \in ms THEN MarkerKind(q[Len(q)])
        ELSE "none"]

InitDetect ==
    /\ \E ms \in SUBSET AllMarkers : disk = DetectDisk(ms)
    /\ projects = <<>>
    /\ RegIdle
    /\ StoreIdle
    /\ StatIdle
    /\ PickIdle
    /\ ScanIdle
    /\ ListIdle

Detect ==
    /\ call' = Call("detect_project", DetectPath, <<>>, <<>>)
    /\ ret' = [err |-> "none", val |-> <<detect_project(disk, DetectPath)>>]
    /\ UNCHANGED <<disk, projects, orphaned, scanVars, listVars, pickVars, storeVars, statVars>>

IsProject ==
    /\ call' = Call("is_project", DetectPath, <<>>, <<>>)
    /\ ret' = [err |-> "none", val |-> <<is_project(disk, DetectPath)>>]
    /\ UNCHANGED <<disk, projects, orphaned, scanVars, listVars, pickVars, storeVars, statVars>>

NextDetect ==
    \/ Detect
    \/ IsProject

SpecDetect == InitDetect /\ [][NextDetect]_vars

(***************************************************************************)
(* Database file (project.rs 32-53).  The text of the file is TOML: one    *)
(* [[projects]] table per record, a table being its key/value pairs in the *)
(* order of the fields of Project; a path is written as a string, "/"      *)
(* before every component.  A line that is no key/value pair is no TOML.   *)
(***************************************************************************)
Missing == [kind |-> "missing"]

File(text) == [kind |-> "file", text |-> text]

\* Serialize for PathBuf: the path as a string
RECURSIVE path_to_str(_)
path_to_str(path) ==
    IF path = <<>> THEN <<>> ELSE <<"/", Head(path)>> \o path_to_str(Tail(path))

\* Deserialize for PathBuf: the components of the string
path_from_str(str) ==
    LET component(c) == c # "/" IN SelectSeq(str, component)

\* a serialization that writes no tags
to_toml_no_tags(ps) ==
    [i \in 1..Len(ps) |->
        << <<"name", ps[i].name>>,
           <<"path", path_to_str(ps[i].path)>>,
           <<"vcs", ps[i].vcs>>,
           <<"build_systems", ps[i].build_systems>>,
           <<"artifact_dirs", ps[i].artifact_dirs>> >>]

\* toml::to_string_pretty(&ProjectDatabase)
to_toml(ps) ==
    [i \in 1..Len(ps) |->
        << <<"name", ps[i].name>>,
           <<"path", path_to_str(ps[i].path)>>,
           <<"vcs", ps[i].vcs>>,
           <<"build_systems", ps[i].build_systems>>,
           <<"artifact_dirs", ps[i].artifact_dirs>>,
           <<"tags", ps[i].tags>> >>]

\* the value of the key in the table, none (<<>>) when the key is not there
table_get(table, key) ==
    LET is_key(kv) == kv[1] = key
        hits == SelectSeq(table, is_key)
    IN  IF hits = <<>> THEN <<>> ELSE <<hits[1][2]>>

\* toml::from_str::<ProjectDatabase>: every field but tags is required,
\* #[serde(default)] gives a record without tags the empty list and a text
\* without projects the empty database
from_toml(text) ==
    LET required == {"name", "path", "vcs", "build_systems", "artifact_dirs"}
        complete(table) == \A key \in required : table_get(table, key) # <<>>
        project(table) ==
            [name |-> table_get(table, "name")[1],
             path |-> path_from_str(table_get(table, "path")[1]),
             vcs |-> table_get(table, "vcs")[1],
             build_systems |-> table_get(table, "build_systems")[1],
             artifact_dirs |-> table_get(table, "artifact_dirs")[1],
             tags |-> IF table_get(table, "tags") = <<>> THEN <<>>
                      ELSE table_get(table, "tags")[1]]
        syntax_ok(table) == \A j \in 1..Len(table) : Len(table[j]) = 2
    IN  IF \E i \in 1..Len(text) : ~syntax_ok(text[i])
        THEN Outcome(<<>>, "DatabaseRead", <<>>)
        ELSE IF \E i \in 1..Len(text) : ~complete(text[i])
        THEN Outcome(<<>>, "DatabaseRead", <<>>)
        ELSE Outcome([i \in 1..Len(text) |-> project(text[i])], "none", <<>>)

\* ProjectDatabase::load
load(file) ==
    IF file.kind = "missing" THEN Outcome(<<>>, "none", <<>>)
    ELSE from_toml(file.text)

\* ProjectDatabase::save.  how: "ok"; "failed" when the directory or the
\* file cannot be created; "truncated" when the write fails after the file
\* was opened
save(file, ps, how) ==
    CASE how = "ok" -> [file |-> File(to_toml(ps)), err |-> "none"]
      [] how = "failed" -> [file |-> file, err |-> "DatabaseWrite"]
      [] how = "truncated" -> [file |-> File(<<>>), err |-> "DatabaseWrite"]

(***************************************************************************)
(* Specification SpecStore: commands that load the database file, change   *)
(* the Registry in memory and save it, while the file is also written and  *)
(* deleted by others                                                       *)
(***************************************************************************)
StoreInputs == {<<"w", "a">>, <<"w", "b">>}

\* what another writer leaves in the file: no TOML, a record typed in
\* without tags, the save of another session
ExternalTexts ==
    << << << <<"?">> >> >>,
       << << <<"name", "b">>, <<"path", <<"/", "w", "b">> >>, <<"vcs", <<>> >>,
             <<"build_systems", <<>> >>, <<"artifact_dirs", <<>> >> >> >>,
       to_toml(register(RegDisk0, <<>>, <<"w", "a">>, <<>>).projects) >>

\* a command starts: the Registry in memory is what load gives; the command
\* ends with the error when load fails
Load ==
    LET o == load(db_file) IN
    /\ projects' = o.projects
    /\ call' = Call("load", <<>>, <<>>, <<>>)
    /\ ret' = Ret(o)
    /\ UNCHANGED <<disk, orphaned, db_file, scanVars, listVars, pickVars, statVars>>

Save(how) ==
    LET o == save(db_file, projects, how) IN
    /\ db_file' = o.file
    /\ call' = Call("save", <<>>, <<>>, <<>>)
    /\ ret' = [err |-> o.err, val |-> <<>>]
    /\ UNCHANGED <<disk, projects, orphaned, scanVars, listVars, pickVars, statVars>>

\* another session or an editor writes the file
ExternalWrite(text) ==
    /\ db_file' = File(text)
    /\ call' = Call("fs", <<>>, <<>>, <<>>)
    /\ ret' = [err |-> "none", val |-> <<>>]
    /\ UNCHANGED <<disk, projects, orphaned, scanVars, listVars, pickVars, statVars>>

\* the file is deleted
DeleteFile ==
    /\ db_file.kind = "file"
    /\ db_file' = Missing
    /\ call' = Call("fs", <<>>, <<>>, <<>>)
    /\ ret' = [err |-> "none", val |-> <<>>]
    /\ UNCHANGED <<disk, projects, orphaned, scanVars, listVars, pickVars, statVars>>

InitStore ==
    /\ disk = RegDisk0
    /\ projects = <<>>
    /\ db_file = Missing
    /\ StatIdle
    /\ RegIdle
    /\ PickIdle
    /\ ScanIdle
    /\ ListIdle

NextStore ==
    \/ Load
    \/ \E how \in {"ok", "failed", "truncated"} : Save(how)
    \/ \E path \in StoreInputs : Register(path, <<>>)
    \/ \E name \in RegNames : Remove(name)
    \/ \E name \in RegNames : AddTags(name, <<"x">>)
    \/ \E i \in 1..Len(ExternalTexts) : ExternalWrite(ExternalTexts[i])
    \/ DeleteFile

SpecStore == InitStore /\ [][NextStore]_vars

(***************************************************************************)
(* Overview statistics (stats.rs 220-256).  projects.par_iter().map(       *)
(* collect_project_stats).collect(): rayon hands the units of work, one    *)
(* per project, to its workers in any order; collect() of an indexed       *)
(* parallel iterator writes the result of unit i into place i of the       *)
(* vector.  The fan-in runs on the calling thread when every unit is done. *)
(***************************************************************************)
\* what the collaborators report for a project directory
StatMeasures ==
    {[code |-> 0, total_bytes |-> 0, artifact_bytes |-> 0, dirty |-> FALSE],
     [code |-> 1, total_bytes |-> 4, artifact_bytes |-> 0, dirty |-> FALSE],
     [code |-> 2, total_bytes |-> 5, artifact_bytes |-> 3, dirty |-> TRUE]}

\* stats::collect_project_stats with the loc and disk statistics: the git
\* status only of a repository, artifact bytes only under the artifact
\* directories of the record
project_stats(d, m, project) ==
    [name |-> project.name,
     git |-> IF Exists(d, Join(project.path, ".git"))
             THEN <<[branch |-> project.path[Len(project.path)],
                     is_dirty |-> m[project.path].dirty]>>
             ELSE <<>>,
     loc |-> [total_code |-> m[project.path].code],
     disk |-> [total_bytes |-> m[project.path].total_bytes,
               artifact_bytes |-> IF project.artifact_dirs = <<>> THEN 0
                                  ELSE m[project.path].artifact_bytes]]

\* a collect() that pushes the results as they arrive
store_at_end(v, i, stats) ==
    LET free == {j \in 1..Len(v) : v[j] = <<>>}
    IN  [v EXCEPT ![CHOOSE j \in free : \A k \in free : j <= k] = <<stats>>]

\* collect(): the result of unit i goes to place i
store(v, i, stats) == [v EXCEPT ![i] = <<stats>>]

\* Iterator::sum
RECURSIVE sum(_)
sum(s) == IF s = <<>> THEN 0 ELSE Head(s) + sum(Tail(s))

\* the fan-in of collect_overview_stats over the collected vector
fan_in(project_stats_vec) ==
    LET n == Len(project_stats_vec)
        is_dirty(st) == st.git # <<>> /\ st.git[1].is_dirty
    IN  [total_projects |-> n,
         total_code_lines |-> sum([i \in 1..n |-> project_stats_vec[i].loc.total_code]),
         total_disk_bytes |-> sum([i \in 1..n |-> project_stats_vec[i].disk.total_bytes]),
         total_artifact_bytes |->
             sum([i \in 1..n |-> project_stats_vec[i].disk.artifact_bytes]),
         dirty_projects |-> Len(SelectSeq(project_stats_vec, is_dirty)),
         projects |-> project_stats_vec]

\* a worker takes a unit of work that no worker has taken
TakeUnit(w, i) ==
    /\ overview = <<>>
    /\ workers[w] = 0
    /\ slots[i] = <<>>
    /\ \A v \in DOMAIN workers : workers[v] # i
    /\ workers' = [workers EXCEPT ![w] = i]
    /\ UNCHANGED <<disk, projects, measured, slots, overview,
                   regVars, scanVars, listVars, pickVars, storeVars>>

\* the worker finishes its unit and collect() places the result
FinishUnit(w) ==
    /\ workers[w] # 0
    /\ slots' = store(slots, workers[w],
                      project_stats(disk, measured, projects[workers[w]]))
    /\ workers' = [workers EXCEPT ![w] = 0]
    /\ UNCHANGED <<disk, projects, measured, overview,
                   regVars, scanVars, listVars, pickVars, storeVars>>

\* every unit is done: the totals are computed and the function returns
FanIn ==
    /\ overview = <<>>
    /\ \A i \in 1..Len(slots) : slots[i] # <<>>
    /\ overview' = <<fan_in([i \in 1..Len(slots) |-> slots[i][1]])>>
    /\ UNCHANGED <<disk, projects, measured, workers, slots,
                   regVars, scanVars, listVars, pickVars, storeVars>>

(***************************************************************************)
(* Specification SpecStats: collect_overview_stats on the projects of the  *)
(* database, with MaxWorkers rayon workers                                 *)
(***************************************************************************)
InitStats ==
    /\ disk = ListDisk0
    /\ \E n \in 0..MaxProjects :
         /\ projects = [i \in 1..n |-> ListRecord(i)]
         /\ measured \in [{ListPath(i) : i \in 1..n} -> StatMeasures]
         /\ slots = [i \in 1..n |-> <<>>]
    /\ workers = [w \in 1..MaxWorkers |-> 0]
    /\ overview = <<>>
    /\ RegIdle
    /\ StoreIdle
    /\ PickIdle
    /\ ScanIdle
    /\ ListIdle

NextStats ==
    \/ \E w \in 1..MaxWorkers, i \in 1..Len(projects) : TakeUnit(w, i)
    \/ \E w \in 1..MaxWorkers : FinishUnit(w)
    \/ FanIn

SpecStats == InitStats /\ [][NextStats]_vars

(***************************************************************************)
(* cmd_scan (cli/mod.rs 70-103): scan_projects on the canonical directory, *)
(* then register for every path found; ProjectAlreadyExists is passed      *)
(* over, every other error is printed, and the loop goes on.               *)
(***************************************************************************)
\* a loop that detects again the records whose path was found
RECURSIVE register_found_refresh(_, _, _)
register_found_refresh(d, ps, paths) ==
    IF paths = <<>> THEN ps
    ELSE LET o == register(d, ps, Head(paths), <<>>)
             detection == detect_project(d, Head(paths))
             again == [i \in 1..Len(ps) |->
                          IF ps[i].path = Head(paths)
                          THEN [ps[i] EXCEPT !.vcs = detection.vcs,
                                             !.build_systems = detection.build_systems,
                                             !.artifact_dirs = detection.artifact_dirs]
                          ELSE ps[i]]
         IN  register_found_refresh(d, IF o.err = "none" THEN o.projects ELSE again,
                                    Tail(paths))

\* for path in &found { match db.register(path, None) ... }
RECURSIVE register_found(_, _, _)
register_found(d, ps, paths) ==
    IF paths = <<>> THEN ps
    ELSE LET o == register(d, ps, Head(paths), <<>>)
         IN  register_found(d, IF o.err = "none" THEN o.projects ELSE ps, Tail(paths))

\* the call of cmd_scan with its arguments
ScanCall(dir, depth) ==
    [op |-> "scan", path |-> dir, name |-> <<>>, tags |-> <<>>, depth |-> depth]

\* cmd_scan up to the call of scan_projects
StartScan(dir, depth) ==
    LET c == canonicalize(disk, dir) IN
    /\ scan_pc = "idle"
    /\ c.ok
    /\ IsDir(disk, c.path)
    /\ root' = c.path
    /\ max_depth' = depth
    /\ walker' = <<{c.path}>>
    /\ project_roots' = <<>>
    /\ found' = <<>>
    /\ scan_pc' = "walking"
    /\ UNCHANGED <<disk, projects, regVars, listVars, pickVars, storeVars, statVars>>

\* cmd_scan after scan_projects: the loop over found; `added` is returned
\* in place of the line printed
RegisterFound ==
    LET ps == register_found(disk, projects, found) IN
    /\ scan_pc = "done"
    /\ projects' = ps
    /\ call' = ScanCall(root, max_depth)
    /\ ret' = [err |-> "none", val |-> <<Len(ps) - Len(projects)>>]
    /\ root' = <<>>
    /\ max_depth' = 0
    /\ walker' = <<>>
    /\ project_roots' = <<>>
    /\ found' = <<>>
    /\ scan_pc' = "idle"
    /\ UNCHANGED <<disk, orphaned, listVars, pickVars, storeVars, statVars>>

\* a marker appears in a directory
AppearMarker(m) ==
    /\ scan_pc = "idle"
    /\ disk[m] = "none"
    /\ disk[Parent(m)] = "dir"
    /\ disk' = [disk EXCEPT ![m] = MarkerKind(m[Len(m)])]
    /\ call' = Call("fs", m, <<>>, <<>>)
    /\ ret' = [err |-> "none", val |-> <<>>]
    /\ UNCHANGED <<projects, orphaned, scanVars, listVars, pickVars, storeVars, statVars>>

(***************************************************************************)
(* Specification SpecCmdScan: `prj scan` again and again on a tree in      *)
(* which markers appear, with `prj tag` in between                         *)
(***************************************************************************)
\* the markers that appear after the first scan
LateMarkers == {<<"r", "p", "q", ".git">>, <<"r", "n", "m", "Makefile">>, <<"r", "p", ".git">>}

\* the tree: p/q is a Cargo project, n/m an npm project
CmdScanDisk0 ==
    LET dirs == {ScanRoot, <<"r", "p">>, <<"r", "p", "q">>, <<"r", "n">>, <<"r", "n", "m">>}
        files == {<<"r", "p", "q", "Cargo.toml">>, <<"r", "n", "m", "package.json">>}
    IN  [q \in ScanPaths \cup LateMarkers |->
            IF q \in dirs THEN "dir" ELSE IF q \in files THEN "file" ELSE "none"]

\* the directories `prj scan` is given
CmdScanDirs == {ScanRoot, <<"r", "p">>, <<"r", ".", "n">>}

InitCmdScan ==
    /\ disk = CmdScanDisk0
    /\ projects = <<>>
    /\ RegIdle
    /\ StoreIdle
    /\ StatIdle
    /\ PickIdle
    /\ ScanIdle
    /\ ListIdle

NextCmdScan ==
    \/ \E dir \in CmdScanDirs, depth \in 0..MaxDepth : StartScan(dir, depth)
    \/ \E e \in DOMAIN disk : ScanEntry(e)
    \/ RegisterFound
    \/ \E m \in LateMarkers : AppearMarker(m)
    \/ \E name \in {"q", "m"} : scan_pc = "idle" /\ AddTags(name, <<"x">>)

SpecCmdScan == InitCmdScan /\ [][NextCmdScan]_vars

(***************************************************************************)
(* cmd_import (cli/mod.rs 652-715, manifest.rs 7-25, 108-131).  A path of  *)
(* a manifest is a sequence of components, absolute when it starts "/".    *)
(***************************************************************************)
ManifestEntry(name, relative_path, remote_url, tags) ==
    [name |-> name, relative_path |-> relative_path, remote_url |-> remote_url,
     tags |-> tags]

\* Path::join: an absolute path replaces the base
path_join(base, rel) ==
    IF rel # <<>> /\ Head(rel) = "/" THEN Tail(rel) ELSE base \o rel

\* manifest::import_targets: every entry with its target path
import_targets(entries, base) ==
    [i \in 1..Len(entries) |->
        [entry |-> entries[i], target |-> path_join(base, entries[i].relative_path)]]

\* a successful `git clone url target`: the repository with its work tree
cloned_disk(d, target) == WithDir(d, target, {".git", "Cargo.toml"})

\* the loop of cmd_import over the targets; `failing` holds the targets
\* whose clone fails if it is run.  Gives the disk, the Registry and the
\* entries that were cloned and registered, with their targets.
RECURSIVE import_loop(_, _, _, _, _)
import_loop(d, ps, targets, failing, registered) ==
    IF targets = <<>> THEN [disk |-> d, projects |-> ps, registered |-> registered]
    ELSE LET entry == Head(targets).entry
             target == Head(targets).target
             d2 == cloned_disk(d, target)
             reg == register(d2, ps, target, <<entry.name>>)
             tagged == IF entry.tags # <<>>
                       THEN add_tags(reg.projects, entry.name, entry.tags).projects
                       ELSE reg.projects
         IN  IF Exists(d, target) \/ entry.remote_url = <<>>
             THEN import_loop(d, ps, Tail(targets), failing, registered)
             ELSE IF target \in failing
             THEN import_loop(d, ps, Tail(targets), failing, registered)
             ELSE IF reg.err # "none"
             THEN import_loop(d2, ps, Tail(targets), failing, registered)
             ELSE import_loop(d2, tagged, Tail(targets), failing,
                              Append(registered, Head(targets)))

\* cmd_import on a manifest that was read and parsed
CmdImport(entries, base, failing) ==
    LET o == import_loop(disk, projects, import_targets(entries, base), failing, <<>>) IN
    /\ disk' = o.disk
    /\ projects' = o.projects
    /\ call' = [op |-> "import", path |-> base, name |-> <<>>, tags |-> <<>>,
                registered |-> o.registered]
    /\ ret' = [err |-> "none", val |-> <<Len(o.registered)>>]
    /\ UNCHANGED <<orphaned, scanVars, listVars, pickVars, storeVars, statVars>>

(***************************************************************************)
(* Specification SpecImport: `prj import` of small manifests into a        *)
(* Registry that `prj add --name`, `prj remove` and deleted directories    *)
(* have shaped                                                             *)
(***************************************************************************)
\* the manifests: entries with a relative and with an absolute path, with
\* and without a remote, alone and in pairs of one name and of two
ImportManifests ==
    LET a_rel == ManifestEntry("a", <<"a">>, <<"url">>, <<"x">>)
        b_rel == ManifestEntry("b", <<"a">>, <<"url">>, <<"x">>)
        a_abs == ManifestEntry("a", <<"/", "v", "a">>, <<"url">>, <<>>)
        b_abs == ManifestEntry("b", <<"/", "v", "a">>, <<"url">>, <<"x">>)
        b_local == ManifestEntry("b", <<"/", "v", "a">>, <<>>, <<"x">>)
    IN  {<<a_rel>>, <<b_rel>>, <<b_local>>, <<a_rel, a_abs>>, <<a_abs, b_rel>>,
         <<a_rel, b_abs>>, <<b_local, a_rel>>}

\* only w/b is there
ImportDisk0 == WithoutDir(WithoutDir(RegDisk0, <<"w", "a">>), <<"v", "a">>)

InitImport ==
    /\ disk = ImportDisk0
    /\ projects = <<>>
    /\ RegIdle
    /\ StoreIdle
    /\ StatIdle
    /\ PickIdle
    /\ ScanIdle
    /\ ListIdle

NextImport ==
    \/ \E entries \in ImportManifests, base \in {<<"w">>, <<"v">>},
          failing \in SUBSET RegVolatile : CmdImport(entries, base, failing)
    \/ \E name \in RegNameArgs : Register(<<"w", "b">>, name)
    \/ \E name \in RegNames : Remove(name)
    \/ \E p \in RegVolatile : DeleteDir(p)

SpecImport == InitImport /\ [][NextImport]_vars

(***************************************************************************)
(* Registration (project.rs 124-153, detect.rs 139-170)                    *)
(***************************************************************************)
\* the indices of the marker table whose marker exists in directory p
MarkersPresent(d, p) ==
    {i \in 1..Len(BUILD_SYSTEMS) : Exists(d, Join(p, BUILD_SYSTEMS[i].marker))}

\* record p is what registering path under the optional name yields on disk d
RegisteredAs(p, d, path, name) ==
    LET c == canonicalize(d, path) IN
    /\ c.ok
    /\ p.path = c.path
    /\ p.name = (IF name # <<>> THEN name[1] ELSE c.path[Len(c.path)])
    /\ p.tags = <<>>
    /\ p.vcs = detect_project(d, c.path).vcs
    /\ p.build_systems = detect_project(d, c.path).build_systems
    /\ p.artifact_dirs = detect_project(d, c.path).artifact_dirs
    /\ p.vcs = (IF Exists(d, Join(c.path, ".git")) THEN <<"Git">> ELSE <<>>)
    /\ Range(p.build_systems) =
            {BUILD_SYSTEMS[i].system : i \in MarkersPresent(d, c.path)}
    /\ Range(p.artifact_dirs) =
            UNION {Range(BUILD_SYSTEMS[i].artifact_dirs) : i \in MarkersPresent(d, c.path)}
    /\ NoRepeat(p.build_systems) /\ NoRepeat(p.artifact_dirs)
    /\ (Exists(d, Join(c.path, "Cargo.toml")) /\ Exists(d, Join(c.path, ".git"))) =>
            /\ "Cargo" \in Range(p.build_systems)
            /\ p.vcs = <<"Git">>
            /\ "target" \in Range(p.artifact_dirs)

\* C11: a successful register appends exactly one record at the end of the
\* list and leaves the others as they were; the record, which is also the
\* one returned, has the canonicalized path, the override as name if one is
\* given and else the last component of the path, no tags, and the version
\* control, build systems and artifact directories detected in the
\* directory at that moment (Cargo, Git and "target" for a directory with
\* Cargo.toml and .git).
C11_RegisterAppends ==
    [][(call'.op = "register" /\ ret'.err = "none") =>
            /\ Len(ret'.val) = 1
            /\ projects' = Append(projects, ret'.val[1])
            /\ RegisteredAs(ret'.val[1], disk, call'.path, call'.name)]_vars

\* the link to the Cargo repository was registered under another name
\* after some other project
C11_Witness ==
    /\ call.op = "register" /\ call.path = <<"l">> /\ call.name = <<"b">>
    /\ ret.err = "none"
    /\ Len(projects) = 2
    /\ projects[2] = [name |-> "b", path |-> <<"w", "a">>, vcs |-> <<"Git">>,
                       build_systems |-> <<"Cargo">>, artifact_dirs |-> <<"target">>,
                       tags |-> <<>>]
    /\ ret.val = <<projects[2]>>

\* C12: register of a path that cannot be canonicalized fails with
\* PathNotFound, register of a path that resolves to something that is not
\* a directory fails with NotADirectory, and both leave the list unchanged.
C12_RegisterRejects ==
    [][call'.op = "register" =>
            LET c == canonicalize(disk, call'.path) IN
            /\ ~c.ok => (ret'.err = "PathNotFound" /\ projects' = projects)
            /\ (c.ok /\ ~IsDir(disk, c.path)) =>
                    (ret'.err = "NotADirectory" /\ projects' = projects)]_vars

\* a plain file was offered to a Registry that holds a project
C12_Witness ==
    /\ call.op = "register" /\ call.path = <<"w", "f">>
    /\ ret.err = "NotADirectory"
    /\ ret.val = <<>>
    /\ Len(projects) >= 1

\* a deleted directory was offered to a Registry that holds a project
C12_NotFoundReached ==
    /\ call.op = "register" /\ call.path \in RegVolatile
    /\ ret.err = "PathNotFound"
    /\ Len(projects) >= 1

(***************************************************************************)
(* Tags (project.rs 87-107)                                                *)
(***************************************************************************)
\* String::cmp order, every tag at most once
SortedTags(ts) == \A i, j \in 1..Len(ts) : i < j => TagRank(ts[i]) < TagRank(ts[j])

\* C13: add_tags is a set union and remove_tags a set difference on the
\* tags of the record; the same call made twice leaves what the first call
\* left; no tag is stored twice, also when the argument repeats it; and the
\* tags of every record are sorted ascending after every call.
C13_TagSets ==
    [][(call'.op \in {"add_tags", "remove_tags"} /\ ret'.err = "none") =>
            LET name == call'.name[1]
                idx == position(projects, name)
                old == projects[idx].tags
                new == projects'[idx].tags
            IN  /\ call'.op = "add_tags" =>
                    /\ Range(new) = Range(old) \cup Range(call'.tags)
                    /\ add_tags(projects', name, call'.tags).projects = projects'
                /\ call'.op = "remove_tags" =>
                    /\ Range(new) = Range(old) \ Range(call'.tags)
                    /\ remove_tags(projects', name, call'.tags).projects = projects'
                /\ call' = call => projects' = projects
                /\ \A i \in 1..Len(projects') :
                        /\ NoRepeat(projects'[i].tags)
                        /\ SortedTags(projects'[i].tags)
                        /\ i # idx => projects'[i] = projects[i]]_vars

\* two tags given in descending order were added to a record that had the
\* one between them
C13_Witness ==
    /\ call.op = "add_tags" /\ call.name = <<"a">> /\ call.tags = <<"z", "x">>
    /\ ret.err = "none"
    /\ projects[1].tags = <<"x", "y", "z">>
    /\ projects[2].tags = <<"y">>

\* a tag repeated in the argument list was added once
C13_RepeatReached ==
    /\ call.op = "add_tags" /\ call.name = <<"b">> /\ call.tags = <<"y", "y">>
    /\ projects[2].tags = <<"y">>

(***************************************************************************)
(* Fuzzy matcher (fuzzy.rs 23-52)                                          *)
(***************************************************************************)
\* the haystack has the characters of the needle in order, compared without
\* case when the needle has no uppercase character
SubsequenceOf(needle, haystack) ==
    LET ignore_case == \A i \in 1..Len(needle) : ~is_uppercase(needle[i])
        same(c, h) == IF ignore_case THEN c = to_lowercase(h) ELSE c = h
    IN  \E at \in [1..Len(needle) -> 1..Len(haystack)] :
            /\ \A i \in 1..Len(needle) : same(needle[i], haystack[at[i]])
            /\ \A i, j \in 1..Len(needle) : i < j => at[i] < at[j]

Indices(filtered) == {filtered[i].index : i \in 1..Len(filtered)}

\* C14: for the empty query filter returns one result per candidate, result
\* i with source index i and nothing scored, also for the empty list.
C14_EmptyQuery ==
    (pick_nav.pc = "returned" /\ picker.query = <<>>) =>
        /\ Len(picker.filtered) = Len(names)
        /\ \A i \in 1..Len(names) :
                picker.filtered[i] = [index |-> i - 1, score |-> 0]

C14_Witness ==
    /\ pick_nav.pc = "returned"
    /\ picker.query = <<>>
    /\ names = <<"ba", "ab", "ba">>
    /\ Len(picker.filtered) = 3

\* the empty query on the empty list
C14_EmptyListReached ==
    /\ pick_nav.pc = "returned"
    /\ picker.query = <<>>
    /\ names = <<>>
    /\ picker.filtered = <<>>

\* every returned index is one of a candidate and is returned once
IndicesOnce ==
    /\ \A i \in 1..Len(picker.filtered) : picker.filtered[i].index \in 0..(Len(names) - 1)
    /\ \A i, j \in 1..Len(picker.filtered) :
            i # j => picker.filtered[i].index # picker.filtered[j].index

C16_SortedByScore ==
    (pick_nav.pc = "returned" /\ picker.query # <<>>) =>
        \A i, j \in 1..Len(picker.filtered) :
            i < j =>
                \/ picker.filtered[i].score > picker.filtered[j].score
                \/ /\ picker.filtered[i].score = picker.filtered[j].score
                   /\ picker.filtered[i].index < picker.filtered[j].index

\* the second candidate scores best and the other two score the same
C16_Witness ==
    /\ pick_nav.pc = "returned"
    /\ picker.query = <<"b">>
    /\ names = <<"ab", "ba", "Ab">>
    /\ picker.filtered[1].index = 1
    /\ picker.filtered[2].index = 0
    /\ picker.filtered[3].index = 2
    /\ picker.filtered[1].score > picker.filtered[2].score
    /\ picker.filtered[2].score = picker.filtered[3].score

(***************************************************************************)
(* Picker (app.rs 56-119)                                                  *)
(***************************************************************************)
\* filtered is the result of filter for the query, and selected is 0 or a
\* row of filtered
PickerInv(st, items) ==
    /\ st.filtered = filter(st.query, items)
    /\ st.selected = 0 \/ st.selected \in 0..(Len(st.filtered) - 1)

\* C17: in the Picker filtered is always filter(query, names) and selected
\* is 0 or a row of filtered; a character key appends the character and
\* Backspace removes the last one (nothing of an empty query), both with
\* filtered computed again and selected set to 0; Up and Down move selected
\* by one and stop at the first and the last row.
C17_PickerKeys ==
    [][     /\ PickerInv(picker', names')
            /\ pick_nav.pc = "running" =>
                /\ last_key' \in PickChars =>
                    /\ picker'.query = Append(picker.query, last_key')
                    /\ picker'.selected = 0
                /\ last_key' = "Backspace" =>
                    /\ picker'.query = (IF picker.query = <<>> THEN <<>>
                                        ELSE SubSeq(picker.query, 1, Len(picker.query) - 1))
                    /\ picker'.selected = 0
                /\ last_key' = "Up" =>
                    /\ picker'.selected = (IF picker.selected = 0 THEN 0
                                           ELSE picker.selected - 1)
                    /\ picker'.query = picker.query
                /\ last_key' = "Down" =>
                    /\ picker'.selected = (IF picker.selected + 1 >= Len(picker.filtered)
                                           THEN picker.selected
                                           ELSE picker.selected + 1)
                    /\ picker'.query = picker.query]_vars

\* Down was pressed on the last of the two rows a query left of three
C17_Witness ==
    /\ pick_nav.pc = "running"
    /\ last_key = "Down"
    /\ Len(names) = 3
    /\ picker.query = <<"a", "b">>
    /\ Len(picker.filtered) = 2
    /\ picker.selected = 1

\* C18: in the Picker Enter ends the loop with the path of the project that
\* the selected row of filtered points to, or with no result when filtered
\* is empty; Escape ends it with no result; no other key ends it.
C18_PickerEnds ==
    [][pick_nav.pc = "running" =>
            /\ last_key' = "Enter" =>
                pick_nav' = [pc |-> "done",
                             result |-> IF picker.filtered = <<>> THEN <<>>
                                        ELSE <<projects[picker.filtered[picker.selected + 1].index + 1].path>>]
            /\ last_key' = "Esc" => pick_nav' = [pc |-> "done", result |-> <<>>]
            /\ last_key' \notin {"Enter", "Esc"} => pick_nav' = pick_nav]_vars

\* Enter on the first row gave the path of the second project, which the
\* query ranks first
C18_Witness ==
    /\ pick_nav.pc = "done"
    /\ last_key = "Enter"
    /\ picker.query = <<"b">>
    /\ picker.selected = 0
    /\ Len(projects) = 3
    /\ pick_nav.result = <<projects[2].path>>

\* Enter with no row left gave no result
C18_EmptyReached ==
    /\ pick_nav.pc = "done"
    /\ last_key = "Enter"
    /\ picker.filtered = <<>>
    /\ pick_nav.result = <<>>

(***************************************************************************)
(* List navigator: Browsing and the action menu (app.rs 162-275,           *)
(* actions.rs 20-60)                                                       *)
(***************************************************************************)
\* C19: in Browsing Up and k lower selected by one and Down and j raise it
\* by one, staying at the first and at the last project; Enter on a list
\* that is not empty opens the action menu at item 0 and leaves selected;
\* q and Esc end the navigator with no result; every other key leaves the
\* state as it is.
C19_BrowsingKeys ==
    [][(nav.pc = "running" /\ state.mode.tag = "Browsing") =>
            /\ projects' = projects
            /\ state.selected \in 0..(Len(projects) - 1)
            /\ last_key' \in {"Up", "k"} =>
                /\ nav' = nav
                /\ state' = [state EXCEPT !.selected = IF @ = 0 THEN 0 ELSE @ - 1]
            /\ last_key' \in {"Down", "j"} =>
                /\ nav' = nav
                /\ state' = [state EXCEPT !.selected = IF @ = Len(projects) - 1 THEN @ ELSE @ + 1]
            /\ (last_key' = "Enter" /\ projects # <<>>) =>
                /\ nav' = nav
                /\ state' = [state EXCEPT !.mode = [tag |-> "ActionMenu", menu_selected |-> 0]]
            /\ last_key' \in {"q", "Esc"} => nav' = [pc |-> "done", result |-> <<>>]
            /\ last_key' \notin {"Up", "k", "Down", "j", "Enter", "q", "Esc"} =>
                /\ nav' = nav
                /\ state' = state]_vars

\* j was the last key and the last of three projects is selected
C19_Witness ==
    /\ nav.pc = "running"
    /\ state.mode.tag = "Browsing"
    /\ last_key = "j"
    /\ Len(projects) = 3
    /\ state.selected = 2

\* the labels of the menu of a project, in order
MenuLabels(project) ==
    IF project.artifact_dirs # <<>>
    THEN <<"View stats", "Clean artifacts", "Open in editor", "Open in explorer",
           "cd to project", "Remove">>
    ELSE <<"View stats", "Open in editor", "Open in explorer", "cd to project", "Remove">>

\* C20: the action menu of a project is View stats, Clean artifacts when
\* the project has an artifact directory name recorded and only then, Open
\* in editor, Open in explorer, cd to project, Remove, in this order, six
\* items or five; and Enter does what the item at menu_selected stands for.
C20_MenuDispatch ==
    [][(nav.pc = "running" /\ state.mode.tag = "ActionMenu" /\ last_key' = "Enter") =>
            LET project == projects[state.selected + 1]
                items == menu_items(project)
                labels == MenuLabels(project)
                chosen == labels[state.mode.menu_selected + 1]
            IN  /\ [i \in 1..Len(items) |-> menu_label(items[i])] = labels
                /\ Len(items) = (IF project.artifact_dirs # <<>> THEN 6 ELSE 5)
                /\ state.mode.menu_selected < Len(labels)
                /\ chosen = "View stats" =>
                    /\ state'.mode.tag = "ViewingStats"
                    /\ nav' = nav
                /\ chosen = "Clean artifacts" =>
                    /\ state'.mode.tag = "Confirming"
                    /\ state'.mode.on_confirm = "CleanArtifacts"
                    /\ nav' = nav
                /\ chosen = "Open in editor" =>
                    /\ state'.mode.tag = "Browsing"
                    /\ \/ state'.message = state.message
                       \/ state'.message[1][1] = "Failed to launch editor: "
                    /\ nav' = nav
                /\ chosen = "Open in explorer" =>
                    /\ state'.mode.tag = "Browsing"
                    /\ state'.message # <<>>
                    /\ state'.message[1][1] \in {"Opened in file manager",
                                                 "Failed to open file manager: "}
                    /\ nav' = nav
                /\ chosen = "cd to project" =>
                    nav' = [pc |-> "done", result |-> <<project.path>>]
                /\ chosen = "Remove" =>
                    /\ state'.mode.tag = "Confirming"
                    /\ state'.mode.on_confirm = "Remove"
                    /\ nav' = nav]_vars

\* Enter on the fifth and last item of the menu of a project without
\* artifact directories asked to confirm Remove
C20_Witness ==
    /\ nav.pc = "running"
    /\ last_key = "Enter"
    /\ state.selected = 1
    /\ Len(projects) >= 2
    /\ projects[2].artifact_dirs = <<>>
    /\ projects[1].artifact_dirs # <<>>
    /\ state.mode.tag = "Confirming"
    /\ state.mode.on_confirm = "Remove"

\* Enter on the second item of a menu of six asked to confirm the cleaning
C20_SixReached ==
    /\ nav.pc = "running"
    /\ last_key = "Enter"
    /\ projects[state.selected + 1].artifact_dirs # <<>>
    /\ state.mode.tag = "Confirming"
    /\ state.mode.on_confirm = "CleanArtifacts"

(***************************************************************************)
(* List navigator: confirmation, results and layering (app.rs 182-345)     *)
(***************************************************************************)
\* the action of the menu item Enter is pressed on, "none" outside the menu
ChosenAction ==
    IF nav.pc = "running" /\ state.mode.tag = "ActionMenu" /\ last_key' = "Enter"
    THEN menu_items(projects[state.selected + 1])[state.mode.menu_selected + 1]
    ELSE "none"

\* the step changes nothing outside ListState and does not end the loop
ListFrame ==
    /\ projects' = projects
    /\ persisted' = persisted
    /\ disk' = disk
    /\ nav' = nav

\* C21: Enter on Clean artifacts or on Remove in the action menu changes
\* only the mode, to Confirming with the pending action of the item; the
\* live list, the database file, the filesystem, selected and the git
\* status cache stay as they are, and so they do in Confirming for every
\* key but y and Y.
C21_ConfirmFirst ==
    [][/\ ChosenAction \in {"CleanArtifacts", "Remove"} =>
            /\ ListFrame
            /\ state'.mode.tag = "Confirming"
            /\ state'.mode.on_confirm = ChosenAction
            /\ state' = [state EXCEPT !.mode = state'.mode]
       /\ (nav.pc = "running" /\ state.mode.tag = "Confirming"
                /\ last_key' \notin {"y", "Y"}) =>
            /\ ListFrame
            /\ state'.selected = state.selected
            /\ state'.git_statuses = state.git_statuses]_vars

\* Enter on Clean artifacts for the third of three projects, after a
\* message was set: nothing is cleaned yet
C21_Witness ==
    /\ nav.pc = "running"
    /\ last_key = "Enter"
    /\ state.mode.tag = "Confirming"
    /\ state.mode.on_confirm = "CleanArtifacts"
    /\ state.selected = 2
    /\ Len(projects) = 3
    /\ state.message # <<>>
    /\ Exists(disk, Join(projects[3].path, "target"))

\* C22: cd to project ends the navigator with the path of the project at
\* selected, and no other step ends it with a path.
C22_OnlyCdYieldsPath ==
    [][/\ ChosenAction = "CdToProject" =>
            nav' = [pc |-> "done", result |-> <<projects[state.selected + 1].path>>]
       /\ (nav'.pc = "done" /\ nav.pc # "done" /\ ChosenAction # "CdToProject") =>
            nav'.result = <<>>]_vars

\* cd to project on the second project
C22_Witness ==
    /\ nav.pc = "done"
    /\ last_key = "Enter"
    /\ state.selected = 1
    /\ Len(projects) = 3
    /\ nav.result = <<projects[2].path>>

\* the list was empty at the start: no result
C22_EmptyStartReached ==
    /\ nav.pc = "done"
    /\ last_key = "none"
    /\ nav.result = <<>>

\* C23: in Confirming n, N and Esc go back to Browsing and change nothing
\* else: list, database file, filesystem, selected, git status cache and
\* message stay; a key other than y, Y, n, N, Esc changes nothing at all.
C23_CancelConfirm ==
    [][(nav.pc = "running" /\ state.mode.tag = "Confirming") =>
            /\ last_key' \in {"n", "N", "Esc"} =>
                /\ ListFrame
                /\ state' = [state EXCEPT !.mode = [tag |-> "Browsing"]]
            /\ last_key' \notin {"y", "Y", "n", "N", "Esc"} =>
                /\ ListFrame
                /\ state' = state]_vars

\* Backspace was pressed in the confirmation of Remove, below a message
C23_Witness ==
    /\ nav.pc = "running"
    /\ last_key = "Backspace"
    /\ state.mode.tag = "Confirming"
    /\ state.mode.on_confirm = "Remove"
    /\ state.message # <<>>

\* N was pressed and a message is still shown in Browsing
C23_CancelReached ==
    /\ nav.pc = "running"
    /\ last_key = "N"
    /\ state.mode.tag = "Browsing"
    /\ state.message = << <<"Opened in file manager">> >>
    /\ state.selected = 1

\* C24: y or Y in the confirmation of Clean artifacts runs the clean on the
\* path and the artifact directory names of the selected project and shows
\* CleanResult, with the bytes-freed message when it succeeded and with the
\* error message when it failed; the navigator goes on, and the live list,
\* selected and the database file are unchanged.  When the clean succeeded
\* exactly the artifact directories of the project are gone.
C24_CleanConfirmed ==
    [][(nav.pc = "running" /\ state.mode.tag = "Confirming"
            /\ state.mode.on_confirm = "CleanArtifacts" /\ last_key' \in {"y", "Y"}) =>
            LET project == projects[state.selected + 1]
                artifact(q) == \E n \in Range(project.artifact_dirs) :
                                    StartsWith(q, Join(project.path, n))
            IN  /\ nav' = nav
                /\ projects' = projects
                /\ persisted' = persisted
                /\ state'.mode.tag = "CleanResult"
                /\ state' = [state EXCEPT !.mode = state'.mode]
                /\ \/ /\ state'.mode.message = <<"Cleaned ", project.name, ": freed ", "bytes">>
                      /\ \A q \in DOMAIN disk :
                            disk'[q] = (IF artifact(q) THEN "none" ELSE disk[q])
                   \/ state'.mode.message[1] = "Error: "]_vars

\* the clean of the second of three projects failed and the error is shown
C24_Witness ==
    /\ nav.pc = "running"
    /\ last_key = "Y"
    /\ state.mode.tag = "CleanResult"
    /\ state.mode.message[1] = "Error: "
    /\ state.selected = 2
    /\ Len(projects) = 3

\* the clean succeeded: target is gone, the markers are not
C24_CleanedReached ==
    /\ nav.pc = "running"
    /\ last_key = "y"
    /\ state.mode.tag = "CleanResult"
    /\ state.mode.message[1] = "Cleaned "
    /\ ~Exists(disk, Join(projects[state.selected + 1].path, "target"))
    /\ Exists(disk, Join(projects[state.selected + 1].path, "Cargo.toml"))

\* C25: Enter on Open in editor or Open in explorer leaves the navigator
\* running in Browsing with the live list and selected unchanged, whether
\* the program could be started or not; a failure is shown in the message,
\* and Open in explorer always sets the message, to success or to failure,
\* in the same key handling.
C25_LaunchFailureShown ==
    [][(ChosenAction \in {"OpenEditor", "OpenExplorer"}) =>
            /\ ListFrame
            /\ state'.mode = [tag |-> "Browsing"]
            /\ state'.selected = state.selected
            /\ state'.git_statuses = state.git_statuses
            /\ ChosenAction = "OpenEditor" =>
                    \/ state'.message = state.message
                    \/ state'.message = << <<"Failed to launch editor: ", "e">> >>
            /\ ChosenAction = "OpenExplorer" =>
                    state'.message \in {<< <<"Opened in file manager">> >>,
                                        << <<"Failed to open file manager: ", "e">> >>}]_vars

\* the editor could not be started for the second project
C25_Witness ==
    /\ nav.pc = "running"
    /\ last_key = "Enter"
    /\ state.mode.tag = "Browsing"
    /\ state.message = << <<"Failed to launch editor: ", "e">> >>
    /\ state.selected = 1

\* the file manager could not be started
C25_ExplorerFailedReached ==
    /\ nav.pc = "running"
    /\ last_key = "Enter"
    /\ state.mode.tag = "Browsing"
    /\ state.message = << <<"Failed to open file manager: ", "e">> >>

\* C26: ViewingStats and Confirming are entered only from the action menu
\* by Enter, CleanResult only from the confirmation of Clean artifacts by y
\* or Y, the action menu only from Browsing; ViewingStats is left only to
\* Browsing and by Esc, Enter or q, CleanResult only to Browsing and by Esc
\* or Enter, and they are left by these keys; every other key in these two
\* modes changes nothing.
C26_Layering ==
    [][nav.pc = "running" =>
            LET from == state.mode.tag
                to == state'.mode.tag
            IN  /\ (to \in {"ViewingStats", "Confirming"} /\ from # to) =>
                        (from = "ActionMenu" /\ last_key' = "Enter")
                /\ (to = "CleanResult" /\ from # to) =>
                        /\ from = "Confirming"
                        /\ state.mode.on_confirm = "CleanArtifacts"
                        /\ last_key' \in {"y", "Y"}
                /\ (to = "ActionMenu" /\ from # to) => from = "Browsing"
                /\ from = "ViewingStats" =>
                        IF last_key' \in {"Esc", "Enter", "q"}
                        THEN state' = [state EXCEPT !.mode = [tag |-> "Browsing"]] /\ ListFrame
                        ELSE state' = state /\ ListFrame
                /\ from = "CleanResult" =>
                        IF last_key' \in {"Esc", "Enter"}
                        THEN state' = [state EXCEPT !.mode = [tag |-> "Browsing"]] /\ ListFrame
                        ELSE state' = state /\ ListFrame]_vars

\* q was pressed in the result overlay, which stays
C26_Witness ==
    /\ nav.pc = "running"
    /\ last_key = "q"
    /\ state.mode.tag = "CleanResult"

\* q closed the stats view: the navigator runs on in Browsing
C26_StatsClosedReached ==
    /\ nav.pc = "running"
    /\ last_key = "q"
    /\ state.mode.tag = "Browsing"

(***************************************************************************)
(* Event loops (app.rs 73-81, 151-159)                                     *)
(***************************************************************************)
\* one of the two loops is running
Looping == nav.pc = "running" \/ pick_nav.pc = "running"

\* C27: in both loops a poll timeout, an event that is no key event and a
\* key event of kind Release or Repeat change nothing of the navigator:
\* query, filtered and selected of the Picker, and selected, mode, message,
\* git status cache and live list of the List; a draw changes nothing
\* either; and an event is only read right after a draw and is followed by
\* a draw, so that draws and key handlings alternate.
C27_OnlyKeyPresses ==
    [][Looping =>
            /\ last_key' \in OtherEvents \cup {"draw"} =>
                /\ picker' = picker
                /\ names' = names
                /\ pick_nav' = pick_nav
                /\ state' = state
                /\ projects' = projects
                /\ persisted' = persisted
                /\ disk' = disk
                /\ nav' = nav
            /\ last_key' # "draw" => last_key = "draw"
            /\ last_key # "draw" => last_key' = "draw"]_vars

\* a key was released while the action menu was open on its third item
C27_Witness ==
    /\ nav.pc = "running"
    /\ last_key = "release"
    /\ state.mode.tag = "ActionMenu"
    /\ state.mode.menu_selected = 2
    /\ state.selected = 1

\* the poll timed out in the picker after two characters were typed
C27_PickerReached ==
    /\ pick_nav.pc = "running"
    /\ last_key = "timeout"
    /\ picker.query = <<"a", "b">>
    /\ Len(picker.filtered) = 2

(***************************************************************************)
(* Detection (detect.rs 139-183)                                           *)
(***************************************************************************)
\* how often x is in the sequence s
Occurrences(s, x) == Cardinality({i \in 1..Len(s) : s[i] = x})

\* C28: detect_project gives every build system and every artifact
\* directory name at most once, also when several markers that are present
\* map to it; it gives exactly the systems and the artifact names of the
\* table entries whose marker exists, Git exactly when .git exists, and
\* three empty lists when no marker exists.
C28_DetectOnce ==
    call.op = "detect_project" =>
        LET r == ret.val[1]
            present == MarkersPresent(disk, call.path)
            git == Exists(disk, Join(call.path, ".git"))
        IN  /\ ret.err = "none"
            /\ \A x \in Range(r.build_systems) : Occurrences(r.build_systems, x) = 1
            /\ \A x \in Range(r.artifact_dirs) : Occurrences(r.artifact_dirs, x) = 1
            /\ Range(r.build_systems) = {BUILD_SYSTEMS[i].system : i \in present}
            /\ Range(r.artifact_dirs) =
                    UNION {Range(BUILD_SYSTEMS[i].artifact_dirs) : i \in present}
            /\ r.vcs = (IF git THEN <<"Git">> ELSE <<>>)
            /\ (present = {} /\ ~git) =>
                    r = [vcs |-> <<>>, build_systems |-> <<>>, artifact_dirs |-> <<>>]

\* both Gradle markers, package.json and CMakeLists.txt: Gradle once, and
\* "build", which all three systems have, once
C28_Witness ==
    /\ call.op = "detect_project"
    /\ \A m \in AllMarkers :
            Exists(disk, Join(DetectPath, m))
                <=> m \in {"build.gradle", "build.gradle.kts", "package.json", "CMakeLists.txt"}
    /\ ret.val[1].build_systems = <<"Npm", "CMake", "Gradle">>
    /\ ret.val[1].artifact_dirs = <<"node_modules", "dist", "build", ".gradle">>
    /\ ret.val[1].vcs = <<>>

\* no marker at all: empty lists, no error
C28_NoneReached ==
    /\ call.op = "detect_project"
    /\ \A m \in AllMarkers : ~Exists(disk, Join(DetectPath, m))
    /\ ret = [err |-> "none",
              val |-> <<[vcs |-> <<>>, build_systems |-> <<>>, artifact_dirs |-> <<>>]>>]

\* C29: is_project is true exactly when .git or the marker of some table
\* entry exists in the directory, which is exactly when detect_project
\* gives a version control system or a build system.
C29_IsProjectIffDetected ==
    call.op = "is_project" =>
        LET detection == detect_project(disk, call.path) IN
        /\ ret.val[1] <=> (\E m \in AllMarkers : Exists(disk, Join(call.path, m)))
        /\ ret.val[1] <=> (detection.vcs # <<>> \/ detection.build_systems # <<>>)

\* a directory with a Makefile only: a project without artifact directories
C29_Witness ==
    /\ call.op = "is_project"
    /\ \A m \in AllMarkers : Exists(disk, Join(DetectPath, m)) <=> m = "Makefile"
    /\ ret.val = <<TRUE>>

\* a directory without markers is no project
C29_FalseReached ==
    /\ call.op = "is_project"
    /\ \A m \in AllMarkers : ~Exists(disk, Join(DetectPath, m))
    /\ ret.val = <<FALSE>>

(***************************************************************************)
(* Database file (project.rs 32-53)                                        *)
(***************************************************************************)
\* C30: load of a missing file gives the empty Registry and no error; after
\* a successful save, whatever the file held before, load gives the records
\* that were saved, with the same fields and in the same order, and so does
\* the load that follows the save.
C30_SaveLoad ==
    [][/\ (call'.op = "load" /\ db_file = [kind |-> "missing"]) =>
            /\ ret'.err = "none"
            /\ projects' = <<>>
       /\ (call'.op = "save" /\ ret'.err = "none") =>
            /\ load(db_file').err = "none"
            /\ load(db_file').projects = projects
       /\ (call.op = "save" /\ ret.err = "none" /\ call'.op = "load") =>
            /\ ret'.err = "none"
            /\ projects' = projects]_vars

\* two records, the second with a tag, were loaded from the file that holds
\* them
C30_Witness ==
    /\ call.op = "load"
    /\ ret.err = "none"
    /\ Len(projects) = 2
    /\ projects[1].name = "b"
    /\ projects[2].tags = <<"x">>
    /\ projects[2].path = <<"w", "a">>
    /\ db_file = [kind |-> "file", text |-> to_toml(projects)]

\* a save replaced what another writer had left
C30_OverwriteReached ==
    /\ call.op = "save"
    /\ ret.err = "none"
    /\ Len(projects) = 2
    /\ db_file.text = to_toml(projects)

\* the file is missing and was loaded as the empty Registry
C30_MissingReached ==
    /\ call.op = "load"
    /\ ret = [err |-> "none", val |-> <<>>]
    /\ db_file = [kind |-> "missing"]
    /\ projects = <<>>

(***************************************************************************)
(* Overview statistics (stats.rs 233-256)                                  *)
(***************************************************************************)
\* the statistics of every project, computed one after the other
SequentialStats == [i \in 1..Len(projects) |-> project_stats(disk, measured, projects[i])]

\* C31: in whatever order the workers take and finish the units, the
\* overview returned lists the statistics of the projects in the order of
\* the projects, one entry each, and its totals are the number of entries,
\* the sums of their code lines, disk bytes and artifact bytes and the
\* number of dirty entries; a unit that finishes writes its own place of the
\* vector and nothing else, and a place once written is not written again.
C31_OverviewIndependent ==
    [][/\ overview' # <<>> =>
            /\ overview'[1].projects = SequentialStats
            /\ overview'[1].total_projects = Len(projects)
            /\ overview'[1].total_code_lines =
                   sum([i \in 1..Len(projects) |-> SequentialStats[i].loc.total_code])
            /\ overview'[1].total_disk_bytes =
                   sum([i \in 1..Len(projects) |-> SequentialStats[i].disk.total_bytes])
            /\ overview'[1].total_artifact_bytes =
                   sum([i \in 1..Len(projects) |-> SequentialStats[i].disk.artifact_bytes])
            /\ overview'[1].dirty_projects =
                   Cardinality({i \in 1..Len(projects) :
                                   /\ SequentialStats[i].git # <<>>
                                   /\ SequentialStats[i].git[1].is_dirty})
       /\ \A i \in 1..Len(slots) :
            /\ slots[i] # <<>> => slots'[i] = slots[i]
            /\ slots'[i] # slots[i] =>
                 /\ \E w \in 1..MaxWorkers : workers[w] = i /\ workers'[w] = 0
                 /\ \A j \in 1..Len(slots) : j # i => slots'[j] = slots[j]
       /\ <<disk, projects, measured>>' = <<disk, projects, measured>>]_vars

\* the overview of three projects with different statistics, one dirty
C31_Witness ==
    /\ overview # <<>>
    /\ overview[1].total_projects = 3
    /\ overview[1].dirty_projects = 1
    /\ overview[1].total_code_lines = 3
    /\ overview[1].total_artifact_bytes = 3
    /\ overview[1].projects[1].loc.total_code = 1
    /\ overview[1].projects[3].loc.total_code = 2

\* the last unit finished while the first was still running
C31_OutOfOrderReached ==
    /\ Len(slots) = 3
    /\ slots[1] = <<>>
    /\ slots[3] # <<>>
    /\ \E w \in 1..MaxWorkers : workers[w] = 1

\* no project: the overview is empty
C31_EmptyReached ==
    /\ overview # <<>>
    /\ overview[1].total_projects = 0
    /\ overview[1].projects = <<>>

(***************************************************************************)
(* Remove from a list opened on one tag (cli/mod.rs 166-211, app.rs        *)
(* 288-295)                                                                *)
(***************************************************************************)
\* the records of ps but the record shown at place `selected` of the list
WithoutSelected(ps, list, selected) ==
    LET kept(r) == r # list[selected + 1] IN SelectSeq(ps, kept)

\* C32: after a confirmed Remove the database file holds the records it
\* held before but the removed one, in their order, also when the list
\* shows only the records of one tag.
C32_RemovePersistsRest ==
    [][ConfirmedRemoveStep =>
            persisted' = WithoutSelected(persisted, projects, state.selected)]_vars

\* the statement of C32 for the steps whose write succeeds: the records
\* that the list does not show are still lost
C32_WhenSaved ==
    [][(ConfirmedRemoveStep /\ save_result' = "ok") =>
            persisted' = WithoutSelected(persisted, projects, state.selected)]_vars

\* the statement of C32 for the steps whose write succeeds in a list that
\* shows every record of the database file
C32_WhenSavedUnfiltered ==
    [][(ConfirmedRemoveStep /\ save_result' = "ok" /\ persisted = projects) =>
            persisted' = WithoutSelected(persisted, projects, state.selected)]_vars

(***************************************************************************)
(* Indexing in run_list (app.rs 123-149, 182-206, 288-309)                 *)
(***************************************************************************)
\* C33: while the navigator runs the live list is not empty, `selected` is
\* a place of it and, in ActionMenu, `menu_selected` is a place of the menu
\* of the selected project; started on an empty list the navigator returns
\* no result at once.
C33_IndicesInBounds ==
    [][/\ nav'.pc = "running" =>
            /\ projects' # <<>>
            /\ state'.selected \in 0..(Len(projects') - 1)
            /\ state'.mode.tag = "ActionMenu" =>
                 state'.mode.menu_selected \in
                     0..(Len(menu_items(projects'[state'.selected + 1])) - 1)
       /\ (nav.pc = "start" /\ projects = <<>>) => nav' = Done(<<>>)]_vars

\* Down was pressed on the last item of the menu of the last project
C33_Witness ==
    /\ nav.pc = "running"
    /\ Len(projects) >= 2
    /\ state.selected = Len(projects) - 1
    /\ state.mode.tag = "ActionMenu"
    /\ state.mode.menu_selected = Len(menu_items(projects[state.selected + 1])) - 1
    /\ last_key \in {"Down", "j"}

\* the last record of the list was removed and `selected` went back by one
C33_ClampedReached ==
    /\ nav.pc = "running"
    /\ state.message # <<>>
    /\ state.message[1][1] = "Removed: "
    /\ state.selected = Len(projects) - 1
    /\ last_key \in {"y", "Y"}
    /\ Len(persisted) = Len(projects)
    /\ projects[Len(projects)].name = "b"

(***************************************************************************)
(* The result of scan_projects (detect.rs 187-240)                         *)
(***************************************************************************)
\* an artifact or hidden name
ExcludedName(name) == name \in ARTIFACT_DIR_NAMES \/ starts_with_dot(name)

\* the directories scan is to return: project roots within max_depth, with
\* no excluded name on the way from the root and no project root above
ScanExpected ==
    {d \in DOMAIN disk :
        /\ disk[d] = "dir"
        /\ StartsWith(d, root)
        /\ DepthOf(d) <= max_depth
        /\ is_project(disk, d)
        /\ \A k \in (Len(root) + 1)..Len(d) : ~ExcludedName(d[k])
        /\ \A k \in Len(root)..(Len(d) - 1) : ~is_project(disk, SubSeq(d, 1, k))}

\* the results below any directory stand together in s, as a walk that
\* finishes a directory before it goes on to the next leaves them
SubtreesTogether(s) ==
    \A i, j, k \in 1..Len(s) :
        (i < j /\ j < k) =>
            \A n \in 1..Len(s[i]) :
                (StartsWith(s[k], SubSeq(s[i], 1, n))) => StartsWith(s[j], SubSeq(s[i], 1, n))

\* C34: scan returns exactly the project roots within max_depth that have no
\* excluded name on the way from the root and no project root above them,
\* each once, in the order of a walk that visits every directory before its
\* children and finishes it before its next sibling.
C34_ScanExact ==
    /\ scan_pc = "done" =>
            /\ Range(found) = ScanExpected
            /\ NoRepeat(found)
            /\ SubtreesTogether(found)
    /\ \A k \in 1..Len(walker) : \A e \in walker[k] :
            /\ DepthOf(e) = k - 1
            /\ \A j \in 1..Len(walker) : Parent(e) \notin walker[j]

\* every name on the disk is valid Unicode
AllNamesUtf8 ==
    \A q \in DOMAIN disk : disk[q] # "none" => \A k \in 1..Len(q) : to_str(q[k]) # <<>>

\* the statement of C34 for the trees whose names are all valid Unicode
C34_WhenUtf8 ==
    AllNamesUtf8 =>
        /\ scan_pc = "done" =>
                /\ Range(found) = ScanExpected
                /\ NoRepeat(found)
                /\ SubtreesTogether(found)
        /\ \A k \in 1..Len(walker) : \A e \in walker[k] :
                /\ DepthOf(e) = k - 1
                /\ \A j \in 1..Len(walker) : Parent(e) \notin walker[j]

\* two projects side by side below p and one below n were returned, the two
\* of p next to each other
C34_SiblingsReached ==
    /\ scan_pc = "done"
    /\ max_depth = 2
    /\ Len(found) = 3
    /\ Range(found) = {<<"r", "p", "q">>, <<"r", "p", "t">>, <<"r", "n", "m">>}
    /\ found[2][2] = "p"
    /\ is_project(disk, <<"r", "p", "q", "s">>)
    /\ disk[<<"r", "target">>] = "dir"
    /\ AllNamesUtf8

(***************************************************************************)
(* Directories the scan leaves out (detect.rs 117-129, 198-218)            *)
(***************************************************************************)
\* some name on the way from the scan root (not counted) to path p (counted
\* up to its first n components) is an artifact or hidden name
UnderExcluded(p, n) == \E k \in (Len(root) + 1)..n : ExcludedName(p[k])

\* C35: a directory below the root whose name is an artifact name of a
\* Marker Table rule, ".git", or begins with a dot is not returned and not
\* read, so nothing beneath it is returned; the exclusion list holds every
\* artifact name of every rule; the root is read whatever its name.
C35_ExcludedSkipped ==
    /\ \A i \in 1..Len(found) : ~UnderExcluded(found[i], Len(found[i]))
    /\ \A k \in 1..Len(walker) : \A e \in walker[k] : ~UnderExcluded(e, Len(e) - 1)
    /\ \A i \in 1..Len(BUILD_SYSTEMS) :
            Range(BUILD_SYSTEMS[i].artifact_dirs) \subseteq ARTIFACT_DIR_NAMES
    /\ ".git" \in ARTIFACT_DIR_NAMES
    /\ (scan_pc = "done" /\ is_project(disk, root)) => found = <<root>>

\* the statement of C35 for the trees whose names are all valid Unicode
C35_WhenUtf8 ==
    AllNamesUtf8 =>
        /\ \A i \in 1..Len(found) : ~UnderExcluded(found[i], Len(found[i]))
        /\ \A k \in 1..Len(walker) : \A e \in walker[k] : ~UnderExcluded(e, Len(e) - 1)
        /\ \A i \in 1..Len(BUILD_SYSTEMS) :
                Range(BUILD_SYSTEMS[i].artifact_dirs) \subseteq ARTIFACT_DIR_NAMES
        /\ ".git" \in ARTIFACT_DIR_NAMES
        /\ (scan_pc = "done" /\ is_project(disk, root)) => found = <<root>>

\* a scan that started in the artifact directory target returned it
C35_RootReached ==
    /\ scan_pc = "done"
    /\ root = <<"r", "target">>
    /\ found = <<root>>

\* a project in a hidden directory was left out
C35_HiddenReached ==
    /\ scan_pc = "done"
    /\ root = ScanRoot
    /\ max_depth >= 1
    /\ ~is_project(disk, root)
    /\ is_project(disk, <<"r", ".h">>)
    /\ ~Contains(found, <<"r", ".h">>)

(***************************************************************************)
(* Escape (app.rs 161-188, 277-282, 333-345)                               *)
(***************************************************************************)
\* the navigator handles a press of Escape
EscapeStep == NextList /\ last_key' = "Esc"

\* C36: while the navigator runs Escape can always be pressed; in Browsing
\* it ends the navigator with no result, in every other mode it leads to
\* Browsing and leaves the list, the database file and the filesystem as
\* they are, so two presses at most end the session.
C36_EscapeEnds ==
    /\ [](nav.pc = "running" => ENABLED EscapeStep)
    /\ [][(nav.pc = "running" /\ last_key' = "Esc") =>
            IF state.mode.tag = "Browsing"
            THEN /\ nav' = Done(<<>>)
                 /\ projects' = projects
                 /\ persisted' = persisted
                 /\ disk' = disk
            ELSE /\ state' = [state EXCEPT !.mode = [tag |-> "Browsing"]]
                 /\ ListFrame]_vars

\* Escape ended a session in which a record had been removed
C36_Witness ==
    /\ nav = Done(<<>>)
    /\ last_key = "Esc"
    /\ projects # <<>>
    /\ state.mode.tag = "Browsing"
    /\ state.message # <<>>

\* Escape closed the confirmation of a removal
C36_OverlayClosedReached ==
    /\ nav.pc = "running"
    /\ last_key = "Esc"
    /\ state.mode.tag = "Browsing"
    /\ state.message = <<>>
    /\ save_result = "none"

(***************************************************************************)
(* What the tag operations change (project.rs 82-107)                      *)
(***************************************************************************)
\* the places of the records of ps that have the name
PlacesNamed(ps, name) == {i \in 1..Len(ps) : ps[i].name = name}

\* record r is record q but for its tags
SameButTags(r, q) ==
    /\ r.name = q.name
    /\ r.path = q.path
    /\ r.vcs = q.vcs
    /\ r.build_systems = q.build_systems
    /\ r.artifact_dirs = q.artifact_dirs

\* C37: add_tags and remove_tags on a name no record has fail with
\* ProjectNotFound and change nothing; otherwise they succeed and change
\* only the tags of the first record of the name; no operation changes
\* another field of a record that stays in the Registry.
C37_OnlyTagsChange ==
    [][/\ call'.op \in {"add_tags", "remove_tags"} =>
            LET places == PlacesNamed(projects, call'.name[1])
            IN  IF places = {}
                THEN ret'.err = "ProjectNotFound" /\ projects' = projects
                ELSE /\ ret'.err = "none"
                     /\ Len(projects') = Len(projects)
                     /\ \A i \in 1..Len(projects) :
                            IF \A j \in places : i <= j
                            THEN SameButTags(projects'[i], projects[i])
                            ELSE projects'[i] = projects[i]
       /\ \A i \in 1..Len(projects), j \in 1..Len(projects') :
            projects'[j].path = projects[i].path => SameButTags(projects'[j], projects[i])]_vars

\* of two records with one name the first was tagged and the second was not
C37_Witness ==
    /\ call.op = "add_tags"
    /\ ret.err = "none"
    /\ Len(projects) >= 2
    /\ projects[1].name = projects[2].name
    /\ projects[1].tags = <<"x">>
    /\ projects[2].tags = <<>>

\* tags were taken from a name that no record has
C37_NotFoundReached ==
    /\ call.op = "remove_tags"
    /\ ret.err = "ProjectNotFound"
    /\ projects # <<>>
    /\ \A i \in 1..Len(projects) : projects[i].name # call.name[1]

(***************************************************************************)
(* Scanning what is registered (cli/mod.rs 70-103, project.rs 56-64)       *)
(***************************************************************************)
\* the step is the loop of cmd_scan over the paths found
RegisterFoundStep == scan_pc = "done" /\ call'.op = "scan"

\* C38: a scan whose paths found are all registered adds no record and
\* leaves the Registry as it is, whatever markers have appeared since; no
\* scan changes a record that is registered or its place; the same scan run
\* again on the same disk leaves the Registry as the first run left it.
C38_ScanKeepsSnapshot ==
    [][RegisterFoundStep =>
            /\ (\A i \in 1..Len(found) : \E j \in 1..Len(projects) :
                        projects[j].path = found[i]) => projects' = projects
            /\ Len(projects') >= Len(projects)
            /\ \A j \in 1..Len(projects) : projects'[j] = projects[j]
            /\ (call.op = "scan" /\ call.path = root /\ call.depth = max_depth) =>
                    projects' = projects]_vars

\* a scan added nothing, and a tagged record still has the detection of the
\* day it was registered though its directory holds a new marker
C38_Witness ==
    /\ call.op = "scan"
    /\ ret.val = <<0>>
    /\ \E j \in 1..Len(projects) :
            /\ projects[j].tags = <<"x">>
            /\ projects[j].vcs = <<>>
            /\ detect_project(disk, projects[j].path).vcs # <<>>

\* the same scan has run twice in a row and found projects
C38_RepeatReached ==
    /\ scan_pc = "done"
    /\ call.op = "scan"
    /\ call.path = root
    /\ call.depth = max_depth
    /\ Len(found) = 2

(***************************************************************************)
(* The tags of an imported entry (cli/mod.rs 652-715, project.rs 82-98)    *)
(***************************************************************************)
\* the tags of the record of ps at the path, none when no record is there
TagsAt(ps, path) ==
    LET at(r) == r.path = path
        hits == SelectSeq(ps, at)
    IN  IF hits = <<>> THEN <<>> ELSE <<hits[1].tags>>

\* C39: the tags of every entry that import cloned and registered are the
\* tags of the record at the target of the entry, and the tags of no record
\* that was registered before have changed, also when a record already had
\* the name of the entry.
C39_ImportTagsOwnRecord ==
    [][call'.op = "import" =>
            /\ \A i \in 1..Len(call'.registered) :
                    LET r == call'.registered[i]
                    IN  TagsAt(projects', r.target) = <<Sort(r.entry.tags)>>
            /\ \A j \in 1..Len(projects) :
                    TagsAt(projects', projects[j].path) = <<projects[j].tags>>]_vars

\* no record of the Registry and no other entry registered by the import
\* has the name of an entry that the import registered
ImportNamesFree ==
    \A i \in 1..Len(call'.registered) :
        /\ \A j \in 1..Len(projects) : projects[j].name # call'.registered[i].entry.name
        /\ \A k \in 1..Len(call'.registered) :
                k # i => call'.registered[k].entry.name # call'.registered[i].entry.name

\* the statement of C39 for the imports whose names are free
C39_WhenNamesFree ==
    [][(call'.op = "import" /\ ImportNamesFree) =>
            /\ \A i \in 1..Len(call'.registered) :
                    LET r == call'.registered[i]
                    IN  TagsAt(projects', r.target) = <<Sort(r.entry.tags)>>
            /\ \A j \in 1..Len(projects) :
                    TagsAt(projects', projects[j].path) = <<projects[j].tags>>]_vars

\* an import registered two entries with free names, one of them tagged
C39_NamesFreeReached ==
    /\ call.op = "import"
    /\ Len(call.registered) = 2
    /\ Len(projects) = 3
    /\ projects[1].name = "b"
    /\ projects[1].path = <<"w", "b">>
    /\ projects[2].name = "a"
    /\ projects[2].tags = <<"x">>
    /\ projects[3].tags = <<>>

====
